---- MODULE Spec2Model ----
(***************************************************************************)
(* Model of the GCP cost-optimization dashboard's two non-trivial pieces:  *)
(*   - the LLM client (services/ai_optimizer_service.py): error            *)
(*     classification, retry with exponential backoff, JSON post-          *)
(*     processing, schema validation and the one-hour result cache;        *)
(*   - the SQL workflow's bounded concurrent dry-run fan-out               *)
(*     (modules/sql_optimization.py) over the cached dry-run client        *)
(*     (services/bigquery_service.py).                                     *)
(*                                                                         *)
(* Texts are modelled as sequences of words; a substring test of the       *)
(* source becomes a test for a word of the sequence.                       *)
(***************************************************************************)
EXTENDS Integers, Sequences, FiniteSets, TLC

VARIABLES
    now,        \* wall clock, in seconds
    ai_cache,   \* st.cache_data store of the four LLM-client operations
    pc,         \* position of the script thread inside an LLM-client call
    cur,        \* the call in progress: operation, argument, start time
    attempt,    \* loop variable of _call_ai_with_retry
    calls,      \* provider calls issued by the call in progress
    waits,      \* durations passed to time.sleep by the call in progress
    kinds,      \* error kinds handle_ai_error gave to the failures so far
    raised,     \* the provider exception text the call gave up on (history)
    caught,     \* which markers the text of the exception just caught holds
    reply,      \* the text the provider sent on its successful call (history)
    response_text,  \* the text _call_ai_with_retry returned
    last,       \* how the most recent call ended
    log,        \* one entry per finished call (history)
    optimized_queries,  \* the pairs the SQL workflow hands to the fan-out
    fpc,        \* position of the script thread in the fan-out
    task,       \* per submitted pair: state of its future and its return value
    dry_cache,  \* st.cache_data store of dry_run_query
    dry_calls,  \* per pair, the dry runs attempted and how they ended (history)
    completed,  \* the progress counter of the drain loop
    results,    \* the result list the drain loop builds
    warned,     \* query ids reported with a warning
    session_results,    \* st.session_state.sql_optimization_results
    outcome,    \* how the last workflow run ended
    dry_log,    \* one entry per dry_run_query call of the script thread (history)
    cfg,        \* the attributes of Config read from the environment
    wf,         \* the workflow run in progress: domain, position, locals
    session,    \* st.session_state of the storage, schedule and ML modules
    issued,     \* calls the run in progress has issued so far (history)
    report,     \* what the most recent run reported last
    agg,        \* a processing loop: its inputs and the records it built
    gen         \* a generator call: its count and the list it builds

fanVars == <<optimized_queries, fpc, task, dry_cache, dry_calls, completed,
             results, warned, session_results, outcome>>

aiVars == <<now, ai_cache, pc, cur, attempt, calls, waits, kinds, raised, caught,
            reply, response_text, last, log>>

dryVars == <<dry_log>>

wfVars == <<cfg, wf, session, issued, report>>

aggVars == <<agg, gen>>

----------------------------------------------------------------------------
(* Bounds of the model *)

MaxErrWords == 2        \* words in a provider error text
MaxArgs == 1            \* distinct argument values per operation
MaxVal == 2             \* distinct payloads a provider reply can carry
MaxCalls == 2           \* LLM-client calls in one behaviour
MaxTime == 3603         \* the clock stops advancing here
TickStep == 1800        \* idle time between two calls

(* Program constants *)

max_retries == 3        \* default of _call_ai_with_retry
ttl == 3600             \* st.cache_data(ttl=3600)

----------------------------------------------------------------------------
(* Texts *)

ErrWords ==
    {"rate limit", "Quota", "API key", "authentication", "Authentication",
     "timeout", "JSON", "parse", "server error"}

Lower(w) ==
    CASE w = "Quota" -> "quota"
      [] w = "API key" -> "api key"
      [] w = "API" -> "api"
      [] w = "Authentication" -> "authentication"
      [] w = "JSON" -> "json"
      [] w = "Invalid" -> "invalid"
      [] w = "Request timed out." -> "request timed out."
      [] w = "Retrying..." -> "retrying..."
      [] w = "Retrying with exponential backoff..." ->
             "retrying with exponential backoff..."
      [] w = "Failed to" -> "failed to"
      [] w = "AI response." -> "ai response."
      [] w = "The response format was invalid." ->
             "the response format was invalid."
      [] OTHER -> w

\* marker in text.lower()
InLower(marker, text) == \E i \in 1..Len(text) : Lower(text[i]) = marker

\* word in text
In(word, text) == \E i \in 1..Len(text) : text[i] = word

SeqsUpTo(S, n) == UNION {[1..k -> S] : k \in 1..n}

ErrorTexts == SeqsUpTo(ErrWords, MaxErrWords)

----------------------------------------------------------------------------
(* AIErrorHandler.handle_ai_error *)

\* the chain with the authentication test first
error_type_auth_first(error_message) ==
    IF InLower("api key", error_message)
       \/ InLower("authentication", error_message)
    THEN "authentication"
    ELSE IF InLower("rate limit", error_message)
            \/ InLower("quota", error_message)
    THEN "rate_limit"
    ELSE IF InLower("timeout", error_message)
    THEN "timeout"
    ELSE IF InLower("json", error_message) \/ InLower("parse", error_message)
    THEN "invalid_response"
    ELSE "unknown"

\* the if/elif chain over the lower-cased text
error_type(error_message) ==
    IF InLower("rate limit", error_message) \/ InLower("quota", error_message)
    THEN "rate_limit"
    ELSE IF InLower("api key", error_message)
            \/ InLower("authentication", error_message)
    THEN "authentication"
    ELSE IF InLower("timeout", error_message)
    THEN "timeout"
    ELSE IF InLower("json", error_message) \/ InLower("parse", error_message)
    THEN "invalid_response"
    ELSE "unknown"

user_message(kind, error_message) ==
    CASE kind = "rate_limit" ->
            <<"API", "rate limit", "exceeded.",
              "Retrying with exponential backoff...">>
      [] kind = "authentication" ->
            <<"Invalid", "API key", "or", "authentication", "failed">>
      [] kind = "timeout" -> <<"Request timed out.", "Retrying...">>
      [] kind = "invalid_response" ->
            <<"Failed to", "parse", "AI response.",
              "The response format was invalid.">>
      [] OTHER -> error_message

\* a copy of the rate-limit branch in the authentication branch
should_retry_auth_too(kind, retry_count) ==
    kind \in {"rate_limit", "timeout", "authentication"} /\ retry_count > 0

\* every kind but authentication retried while the budget lasts
should_retry_all_but_auth(kind, retry_count) ==
    kind # "authentication" /\ retry_count > 0

should_retry(kind, retry_count) ==
    kind \in {"rate_limit", "timeout"} /\ retry_count > 0

\* the kinds whose test in the chain the lower-cased text passes
markers_found(error_message) ==
    (IF InLower("rate limit", error_message) \/ InLower("quota", error_message)
     THEN {"rate_limit"} ELSE {})
    \cup (IF InLower("api key", error_message)
             \/ InLower("authentication", error_message)
          THEN {"authentication"} ELSE {})
    \cup (IF InLower("timeout", error_message) THEN {"timeout"} ELSE {})
    \cup (IF InLower("json", error_message) \/ InLower("parse", error_message)
          THEN {"invalid_response"} ELSE {})

\* no exception is being handled
NoCaught == [any |-> FALSE, found |-> {}]

handle_ai_error(error_message, retry_count) ==
    [error_type |-> error_type(error_message),
     user_message |-> user_message(error_type(error_message), error_message),
     should_retry |-> should_retry(error_type(error_message), retry_count),
     original_error |-> error_message]

----------------------------------------------------------------------------
(* Provider replies.  A reply is a sequence of chunks: a markdown fence     *)
(* opening with a language tag, a bare fence, white space, prose, or a JSON *)
(* document.  A JSON document is abstracted to its shape, the key sets of   *)
(* its objects and a payload that tells two replies apart.                  *)

Ops == {"optimize_sql_query", "analyze_storage", "optimize_schedule",
        "optimize_ml_jobs"}

required_keys(op) ==
    CASE op = "optimize_sql_query" ->
            <<"optimized_query", "optimizations_applied", "explanation">>
      [] op = "analyze_storage" ->
            <<"bucket_name", "issue", "suggestion",
              "estimated_savings_percent">>
      [] op = "optimize_schedule" ->
            <<"redundant_queries", "frequency_adjustments",
              "merge_opportunities", "materialized_view_candidates",
              "estimated_savings">>
      [] op = "optimize_ml_jobs" ->
            <<"job_name", "current_config", "suggested_config",
              "optimization_type", "estimated_savings_percent">>

\* isinstance(result, list) is demanded by the two list-shaped operations
expects_list(op) == op \in {"analyze_storage", "optimize_ml_jobs"}

failure_prefix(op) ==
    CASE op = "optimize_sql_query" -> "Failed to optimize SQL query:"
      [] op = "analyze_storage" -> "Failed to analyze storage:"
      [] op = "optimize_schedule" -> "Failed to optimize schedules:"
      [] op = "optimize_ml_jobs" -> "Failed to optimize ML jobs:"

Range(f) == {f[i] : i \in DOMAIN f}

AllKeys(op) == Range(required_keys(op))

\* key sets a provider may send for an object: complete, or one key short
KeySets(op) == {AllKeys(op)} \cup {AllKeys(op) \ {k} : k \in AllKeys(op)}

NoDoc == [shape |-> "none", elems |-> <<>>, val |-> 0]

Docs(op) ==
    {[shape |-> "object", elems |-> <<ks>>, val |-> v] :
        ks \in KeySets(op), v \in 1..MaxVal}
    \cup {[shape |-> "list", elems |-> es, val |-> v] :
        es \in {<<>>, <<AllKeys(op)>>, <<AllKeys(op), AllKeys(op)>>}
               \cup {<<AllKeys(op), ks>> : ks \in KeySets(op)},
        v \in 1..MaxVal}

Fence == [t |-> "fence", doc |-> NoDoc]
FenceJson == [t |-> "fence_json", doc |-> NoDoc]
Ws == [t |-> "ws", doc |-> NoDoc]
Prose == [t |-> "prose", doc |-> NoDoc]
Json(d) == [t |-> "json", doc |-> d]

Bodies(op) == {<<Json(d)>> : d \in Docs(op)} \cup {<<Prose>>, <<>>}

\* the ways a provider wraps a body
Replies(op) ==
    UNION {{b,
            <<Ws>> \o b \o <<Ws>>,
            <<FenceJson, Ws>> \o b \o <<Ws, Fence>>,
            <<Fence, Ws>> \o b \o <<Ws, Fence>>,
            <<FenceJson, Ws>> \o b,
            <<Prose, Ws, FenceJson>> \o b \o <<Fence>>} : b \in Bodies(op)}

----------------------------------------------------------------------------
(* AIOptimizerService._parse_json_response *)

RECURSIVE lstrip(_)
lstrip(text) ==
    IF text # <<>> /\ Head(text) = Ws THEN lstrip(Tail(text)) ELSE text

RECURSIVE rstrip(_)
rstrip(text) ==
    IF text # <<>> /\ text[Len(text)] = Ws
    THEN rstrip(SubSeq(text, 1, Len(text) - 1))
    ELSE text

strip(text) == rstrip(lstrip(text))

\* text.startswith(fence + "json") / text.startswith(fence), where fence is
\* three backquotes: a fence with the json tag starts with both
startswith(text, chunk) ==
    /\ text # <<>>
    /\ \/ Head(text) = chunk
       \/ chunk = Fence /\ Head(text) = FenceJson

endswith(text, chunk) == text # <<>> /\ text[Len(text)] = chunk

strip_fences(raw) ==
    LET t0 == strip(raw)
        t1 == IF startswith(t0, FenceJson) THEN Tail(t0)
              ELSE IF startswith(t0, Fence) THEN Tail(t0)
              ELSE t0
        t2 == IF endswith(t1, Fence) THEN SubSeq(t1, 1, Len(t1) - 1) ELSE t1
    IN  strip(t2)

\* json.loads accepts exactly one JSON document
json_loads_ok(text) == Len(text) = 1 /\ text[1].t = "json"

ProseChars == 120       \* characters of a prose chunk
JsonChars == 120        \* characters of a JSON document

ShownChars == 200       \* the 200 of text[:200]

\* len(chunk)
chunk_len(chunk) ==
    CASE chunk.t = "fence" -> 3
      [] chunk.t = "fence_json" -> 7
      [] chunk.t = "ws" -> 1
      [] chunk.t = "prose" -> ProseChars
      [] chunk.t = "json" -> JsonChars

\* text[:n]: the chunks that fit whole, then the part of the next one
RECURSIVE take(_, _)
take(text, n) ==
    IF text = <<>> \/ n <= 0
    THEN <<>>
    ELSE IF chunk_len(Head(text)) <= n
    THEN <<[chunk |-> Head(text), chars |-> chunk_len(Head(text))]>>
         \o take(Tail(text), n - chunk_len(Head(text)))
    ELSE <<[chunk |-> Head(text), chars |-> n]>>

\* error: the words of the message; shown: the reply text quoted in it
_parse_json_response(raw) ==
    LET text == strip_fences(raw)
    IN  IF json_loads_ok(text)
        THEN [ok |-> TRUE, result |-> text[1].doc, error |-> <<>>,
              shown |-> <<>>]
        ELSE [ok |-> FALSE, result |-> NoDoc,
              error |-> <<"Failed to", "parse", "JSON", "response:">>,
              shown |-> take(text, ShownChars)]

----------------------------------------------------------------------------
(* Schema validation of the four operations *)

\* first required key, in the order of required_keys, absent from a key set
first_missing(op, ks) ==
    LET rk == required_keys(op)
        i == CHOOSE i \in 1..Len(rk) :
                /\ rk[i] \notin ks
                /\ \A j \in 1..(i - 1) : rk[j] \in ks
    IN  rk[i]

\* the key check made on the first suggestion of a list only
validate_first_suggestion(op, result) ==
    IF expects_list(op)
    THEN IF result.shape # "list"
         THEN <<"AI response must be a list of optimization suggestions">>
         ELSE IF result.elems = <<>> \/ AllKeys(op) \subseteq result.elems[1]
         THEN <<>>
         ELSE <<"Missing required key in suggestion:",
                first_missing(op, result.elems[1])>>
    ELSE IF result.shape = "list"
         THEN <<"Missing required key in AI response:", required_keys(op)[1]>>
         ELSE IF AllKeys(op) \subseteq result.elems[1]
         THEN <<>>
         ELSE <<"Missing required key in AI response:",
                first_missing(op, result.elems[1])>>

validate(op, result) ==
    IF expects_list(op)
    THEN IF result.shape # "list"
         THEN <<"AI response must be a list of optimization suggestions">>
         ELSE IF \A i \in 1..Len(result.elems) :
                    AllKeys(op) \subseteq result.elems[i]
         THEN <<>>
         ELSE LET i == CHOOSE i \in 1..Len(result.elems) :
                        /\ ~(AllKeys(op) \subseteq result.elems[i])
                        /\ \A j \in 1..(i - 1) :
                              AllKeys(op) \subseteq result.elems[j]
              IN  <<"Missing required key in suggestion:",
                    first_missing(op, result.elems[i])>>
    ELSE \* "key not in result": a list of objects holds no key string
         IF result.shape = "list"
         THEN <<"Missing required key in AI response:", required_keys(op)[1]>>
         ELSE IF AllKeys(op) \subseteq result.elems[1]
         THEN <<>>
         ELSE <<"Missing required key in AI response:",
                first_missing(op, result.elems[1])>>

----------------------------------------------------------------------------
(* The LLM client: @st.cache_data(ttl=3600) around the four operations,    *)
(* each of which runs _call_ai_with_retry, _parse_json_response and its    *)
(* schema validation inside one try block.                                 *)

Keys == Ops \X (1..MaxArgs)

NoEntry == [valid |-> FALSE, value |-> NoDoc, at |-> 0]

\* entries that never serve a call
cache_hit_never(entry, t) == FALSE

\* an entry older than ttl seconds is expired
cache_hit(entry, t) == entry.valid /\ t - entry.at < ttl

\* the except branch re-raises unless the error is retryable and attempts remain
should_raise(error_info, att) ==
    ~error_info.should_retry \/ att = max_retries - 1

\* 2 ** (attempt + 1): the backoff one step ahead
wait_time_ahead(att) == 2 ^ (att + 1)

\* wait_time = 2 ** attempt
wait_time(att) == 2 ^ att

\* the raw error text left out of the message
raised_message_bare(error_info) == error_info.user_message

\* f"{error_info['user_message']}: {error_info['original_error']}"
raised_message(error_info) ==
    error_info.user_message \o <<":">> \o error_info.original_error

\* return response.text / return response.choices[0].message.content
retry_return(text) == text

\* what the cached function stores when it returns
cache_store(cache, key, value, t) ==
    [cache EXCEPT ![key] = [valid |-> TRUE, value |-> value, at |-> t]]

\* the failure cached like a result
cache_after_raise_stored(cache, key) ==
    [cache EXCEPT ![key] = [valid |-> TRUE, value |-> NoDoc, at |-> now]]

\* a raising call stores nothing
cache_after_raise(cache, key) == cache

LogEntry(ok, result, t1, n) ==
    [op |-> cur.op, arg |-> cur.arg, t0 |-> cur.t0, t1 |-> t1,
     n |-> n, ok |-> ok, result |-> result]

\* the operation raises Exception(failure_prefix + str(e))
OpRaises(retry_error, e, shown, t1, n) ==
    /\ pc' = "idle"
    /\ last' = [status |-> "error", result |-> NoDoc,
                retry_error |-> retry_error, shown |-> shown,
                error |-> <<failure_prefix(cur.op)>> \o e]
    /\ ai_cache' = cache_after_raise(ai_cache, <<cur.op, cur.arg>>)
    /\ log' = Append(log, LogEntry(FALSE, NoDoc, t1, n))

AIStart(op) ==
    /\ now = 0
    /\ ai_cache = [k \in Keys |-> NoEntry]
    /\ pc = "idle"
    /\ cur = [op |-> op, arg |-> 1, t0 |-> 0]
    /\ attempt = 0
    /\ calls = 0
    /\ waits = <<>>
    /\ kinds = <<>>
    /\ raised = <<>>
    /\ caught = NoCaught
    /\ reply = <<>>
    /\ response_text = <<>>
    /\ last = [status |-> "none", result |-> NoDoc, retry_error |-> <<>>,
               shown |-> <<>>,
               error |-> <<>>]
    /\ log = <<>>

\* time passes between two calls
Tick ==
    /\ pc = "idle"
    /\ now + TickStep <= MaxTime
    /\ now' = now + TickStep
    /\ UNCHANGED <<ai_cache, pc, cur, attempt, calls, waits, kinds, raised,
                   caught, reply, response_text, last, log>>

\* a call that finds a live cache entry returns it without running the body
CallCached(op, arg) ==
    /\ pc = "idle"
    /\ cache_hit(ai_cache[<<op, arg>>], now)
    /\ cur' = [op |-> op, arg |-> arg, t0 |-> now]
    /\ attempt' = 0 /\ calls' = 0 /\ waits' = <<>> /\ kinds' = <<>>
    /\ raised' = <<>> /\ reply' = <<>> /\ response_text' = <<>>
    /\ caught' = NoCaught
    /\ last' = [status |-> "ok", result |-> ai_cache[<<op, arg>>].value,
                retry_error |-> <<>>, shown |-> <<>>,
                            error |-> <<>>]
    /\ log' = Append(log, [op |-> op, arg |-> arg, t0 |-> now, t1 |-> now,
                           n |-> 0, ok |-> TRUE,
                           result |-> ai_cache[<<op, arg>>].value])
    /\ UNCHANGED <<now, ai_cache, pc>>

\* a call that finds none enters the body: for attempt in range(max_retries)
CallUncached(op, arg) ==
    /\ pc = "idle"
    /\ ~cache_hit(ai_cache[<<op, arg>>], now)
    /\ cur' = [op |-> op, arg |-> arg, t0 |-> now]
    /\ pc' = "retry"
    /\ attempt' = 0 /\ calls' = 0 /\ waits' = <<>> /\ kinds' = <<>>
    /\ raised' = <<>> /\ reply' = <<>> /\ response_text' = <<>>
    /\ caught' = NoCaught
    /\ UNCHANGED <<now, ai_cache, last, log>>

\* the provider call of this attempt raises e
ProviderRaises(e) ==
    /\ pc = "retry"
    /\ attempt < max_retries
    /\ calls' = calls + 1
    /\ LET error_info == handle_ai_error(e, max_retries - attempt - 1)
           msg == raised_message(error_info)
       IN  /\ kinds' = Append(kinds, error_info.error_type)
           /\ caught' = [any |-> TRUE, found |-> markers_found(e)]
           /\ IF should_raise(error_info, attempt)
              THEN /\ OpRaises(msg, msg, <<>>, now, calls + 1)
                   /\ raised' = e
                   /\ UNCHANGED <<now, attempt, waits>>
              ELSE /\ waits' = Append(waits, wait_time(attempt))
                   /\ raised' = <<>>
                   /\ now' = now + wait_time(attempt)
                   /\ attempt' = attempt + 1
                   /\ IF attempt + 1 < max_retries
                      THEN UNCHANGED <<ai_cache, pc, last, log>>
                      ELSE \* the loop ends without a return
                           OpRaises(
                             <<"Failed to get AI response after all retries">>,
                             <<"Failed to get AI response after all retries">>,
                             <<>>, now + wait_time(attempt), calls + 1)
    /\ UNCHANGED <<cur, reply, response_text>>

\* the provider call of this attempt returns a text, which the loop returns
ProviderReturns(text) ==
    /\ pc = "retry"
    /\ attempt < max_retries
    /\ calls' = calls + 1
    /\ raised' = <<>>
    /\ caught' = NoCaught
    /\ reply' = text
    /\ response_text' = retry_return(text)
    /\ pc' = "parse"
    /\ UNCHANGED <<now, ai_cache, cur, attempt, waits, kinds, last, log>>

\* a parse failure sent back into the retry loop
ParseAndValidate_retrying ==
    /\ pc = "parse"
    /\ LET parsed == _parse_json_response(response_text)
           missing == validate(cur.op, parsed.result)
       IN  IF ~parsed.ok
           THEN IF attempt + 1 < max_retries
                THEN /\ pc' = "retry"
                     /\ attempt' = attempt + 1
                     /\ UNCHANGED <<ai_cache, last, log>>
                ELSE /\ OpRaises(<<>>, parsed.error, parsed.shown, now, calls)
                     /\ UNCHANGED attempt
           ELSE /\ UNCHANGED attempt
                /\ IF missing # <<>>
                   THEN OpRaises(<<>>, missing, <<>>, now, calls)
                   ELSE /\ pc' = "idle"
                        /\ last' = [status |-> "ok", result |-> parsed.result,
                                    retry_error |-> <<>>, shown |-> <<>>,
                                    error |-> <<>>]
                        /\ ai_cache' = cache_store(ai_cache, <<cur.op, cur.arg>>,
                                                   parsed.result, now)
                        /\ log' = Append(log, LogEntry(TRUE, parsed.result,
                                                       now, calls))
    /\ UNCHANGED <<now, cur, calls, waits, kinds, raised, caught, reply,
                   response_text>>

\* result = _parse_json_response(response_text); validation; return result
ParseAndValidate ==
    /\ pc = "parse"
    /\ LET parsed == _parse_json_response(response_text)
           missing == validate(cur.op, parsed.result)
       IN  IF ~parsed.ok
           THEN OpRaises(<<>>, parsed.error, parsed.shown, now, calls)
           ELSE IF missing # <<>>
           THEN OpRaises(<<>>, missing, <<>>, now, calls)
           ELSE /\ pc' = "idle"
                /\ last' = [status |-> "ok", result |-> parsed.result,
                            retry_error |-> <<>>, shown |-> <<>>,
                            error |-> <<>>]
                /\ ai_cache' = cache_store(ai_cache, <<cur.op, cur.arg>>,
                                           parsed.result, now)
                /\ log' = Append(log, LogEntry(TRUE, parsed.result, now, calls))
    /\ UNCHANGED <<now, cur, attempt, calls, waits, kinds, raised, caught, reply,
                   response_text>>

----------------------------------------------------------------------------
(* BigQueryService.dry_run_query under @st.cache_data(ttl=3600).  The      *)
(* provider's answer to a dry run is an input: the bytes the query would   *)
(* process, an exception raised by the client call (caught inside          *)
(* dry_run_query), or an exception that escapes dry_run_query.             *)
(* estimated_cost_usd is kept in units of 2^-40 USD, so that               *)
(* (bytes / 1024**4) * rate is the integer bytes * rate.                   *)

cost_per_tb == 5        \* the 5.0 of dry_run_query

BIGQUERY_COST_PER_TB == 50      \* Config.BIGQUERY_COST_PER_TB = 50.0

NoDry == [success |-> FALSE, total_bytes_processed |-> 0,
          estimated_cost_usd |-> 0, error |-> <<>>]

NoDryEntry == [valid |-> FALSE, value |-> NoDry, at |-> 0]

\* the body of dry_run_query on a provider answer that does not escape it
dry_run_body(answer) ==
    IF answer.kind = "bytes"
    THEN [success |-> TRUE, total_bytes_processed |-> answer.bytes,
          estimated_cost_usd |-> answer.bytes * cost_per_tb,
          error |-> <<>>]
    ELSE [success |-> FALSE, total_bytes_processed |-> 0,
          estimated_cost_usd |-> 0, error |-> answer.text]

\* the function without its cache decorator: every call runs the body
dry_run_query_undecorated(cache, query, answer, t) ==
    IF answer.kind = "escapes"
    THEN [raised |-> TRUE, value |-> NoDry, error |-> answer.text,
          calls |-> 0, cache |-> cache]
    ELSE [raised |-> FALSE, value |-> dry_run_body(answer), error |-> <<>>,
          calls |-> 1, cache |-> cache]

\* a body without its except branch: the provider's exception propagates
dry_run_query_propagating(cache, query, answer, t) ==
    IF cache_hit(cache[query], t)
    THEN [raised |-> FALSE, value |-> cache[query].value, error |-> <<>>,
          calls |-> 0, cache |-> cache]
    ELSE IF answer.kind \in {"escapes", "raises"}
    THEN [raised |-> TRUE, value |-> NoDry, error |-> answer.text,
          calls |-> 1, cache |-> cache]
    ELSE [raised |-> FALSE, value |-> dry_run_body(answer), error |-> <<>>,
          calls |-> 1,
          cache |-> [cache EXCEPT ![query] =
                        [valid |-> TRUE, value |-> dry_run_body(answer),
                         at |-> t]]]

\* a cache that keeps the records of successful dry runs only
dry_run_query_storing_successes(cache, query, answer, t) ==
    IF cache_hit(cache[query], t)
    THEN [raised |-> FALSE, value |-> cache[query].value, error |-> <<>>,
          calls |-> 0, cache |-> cache]
    ELSE IF answer.kind = "escapes"
    THEN [raised |-> TRUE, value |-> NoDry, error |-> answer.text,
          calls |-> 0, cache |-> cache]
    ELSE [raised |-> FALSE, value |-> dry_run_body(answer), error |-> <<>>,
          calls |-> 1,
          cache |-> IF answer.kind = "bytes"
                    THEN [cache EXCEPT ![query] =
                             [valid |-> TRUE, value |-> dry_run_body(answer),
                              at |-> t]]
                    ELSE cache]

\* the cached call: [raised, value, error, calls, cache]; a returned record
\* is stored whether it reports success or failure, a raised exception stores
\* nothing.  calls counts _self.client.query: the body has no loop around it,
\* and an exception that escapes the body was raised outside its try block,
\* before the provider is contacted.
dry_run_query(cache, query, answer, t) ==
    IF cache_hit(cache[query], t)
    THEN [raised |-> FALSE, value |-> cache[query].value, error |-> <<>>,
          calls |-> 0, cache |-> cache]
    ELSE IF answer.kind = "escapes"
    THEN [raised |-> TRUE, value |-> NoDry, error |-> answer.text,
          calls |-> 0, cache |-> cache]
    ELSE [raised |-> FALSE, value |-> dry_run_body(answer), error |-> <<>>,
          calls |-> 1,
          cache |-> [cache EXCEPT ![query] =
                        [valid |-> TRUE, value |-> dry_run_body(answer),
                         at |-> t]]]

----------------------------------------------------------------------------
(* _process_query_pair_parallel: the work unit of one pair.                *)
(* Every modelled error text is shorter than 150 characters, so the        *)
(* [:150] cuts keep it whole.                                              *)

\* '401' in e or 'UNAUTHENTICATED' in e or 'authentication' in e.lower()
is_auth_error(error_msg) ==
    \/ In("401", error_msg)
    \/ In("UNAUTHENTICATED", error_msg)
    \/ InLower("authentication", error_msg)

NoRet == [success |-> FALSE, query_id |-> 0, error |-> <<>>,
          before_result |-> NoDry, after_result |-> NoDry]

Failed(query_id, error) ==
    [success |-> FALSE, query_id |-> query_id, error |-> error,
     before_result |-> NoDry, after_result |-> NoDry]

auth_failure(query_id) ==
    Failed(query_id, <<"Authentication error - check credentials">>)

\* the work unit going on to the optimized query after a failure record
after_original_goes_on(query_id, r) ==
    IF r.raised
    THEN [running |-> FALSE,
          ret |-> IF is_auth_error(r.error) THEN auth_failure(query_id)
                  ELSE Failed(query_id, r.error)]
    ELSE [running |-> TRUE, ret |-> NoRet]

\* the return value once the dry run of the original query has answered;
\* running = TRUE when the work unit goes on to the optimized query
after_original(query_id, r) ==
    IF r.raised
    THEN [running |-> FALSE,
          ret |-> IF is_auth_error(r.error) THEN auth_failure(query_id)
                  ELSE Failed(query_id, r.error)]
    ELSE IF ~r.value.success
    THEN [running |-> FALSE,
          ret |-> IF is_auth_error(r.value.error)
                  THEN auth_failure(query_id)
                  ELSE Failed(query_id,
                              <<"Original query failed:">> \o r.value.error)]
    ELSE [running |-> TRUE, ret |-> NoRet]

after_optimized(query_id, before_result, r) ==
    IF r.raised
    THEN IF is_auth_error(r.error) THEN auth_failure(query_id)
         ELSE Failed(query_id, r.error)
    ELSE IF ~r.value.success
    THEN IF is_auth_error(r.value.error) THEN auth_failure(query_id)
         ELSE Failed(query_id, <<"Optimized query failed:">> \o r.value.error)
    ELSE [success |-> TRUE, query_id |-> query_id, error |-> <<>>,
          before_result |-> before_result, after_result |-> r.value]

----------------------------------------------------------------------------
(* The fan-out of _run_sql_optimization_workflow: ThreadPoolExecutor with  *)
(* max_workers=5, one future per pair, drained with as_completed.          *)

max_workers == 5        \* ThreadPoolExecutor(max_workers=5)

MaxPairs == 2           \* pairs of a batch with every provider answer
MaxPoolPairs == 6       \* pairs of a batch that fills the worker pool
MaxBytes == 1           \* largest byte count a dry run reports

N == Len(optimized_queries)

\* history entry of one dry run: the side and the text, when it was made,
\* whether it reported success, the provider calls it made, what it returned
DryCall(side, query, r) ==
    [side |-> side, query |-> query, t |-> now,
     ok |-> ~r.raised /\ r.value.success,
     calls |-> r.calls, raised |-> r.raised, value |-> r.value]

InFlight == {i \in DOMAIN task : task[i].st \in {"original", "optimized"}}

FailedPairs ==
    {i \in DOMAIN task : task[i].st \in {"finished", "drained"}
                         /\ ~task[i].ret.success}

\* a pool without a cap
worker_free_unbounded(inflight) == TRUE

\* a pool that stops taking work items once a pair has failed
worker_free_until_failure(inflight) ==
    Cardinality(inflight) < max_workers /\ FailedPairs = {}

\* a worker thread is free to take the next queued work item
worker_free(inflight) == Cardinality(inflight) < max_workers

NoTask == [st |-> "queued", before_result |-> NoDry, ret |-> NoRet]

\* the record with its savings clamped at zero
sql_result_clamped(query_data, result_data) ==
    LET bytes_before == result_data.before_result.total_bytes_processed
        bytes_after == result_data.after_result.total_bytes_processed
    IN  [query_id |-> query_data.query_id,
         original_query |-> query_data.original_query,
         optimized_query |-> query_data.optimized_query,
         bytes_before |-> bytes_before,
         bytes_after |-> bytes_after,
         cost_before_usd |-> result_data.before_result.estimated_cost_usd,
         cost_after_usd |-> result_data.after_result.estimated_cost_usd,
         savings_percent |->
            IF bytes_before > 0 /\ bytes_after <= bytes_before
            THEN [num |-> (bytes_before - bytes_after) * 100,
                  den |-> bytes_before]
            ELSE [num |-> 0, den |-> 1],
         optimizations_applied |-> query_data.optimizations_applied]

\* the record the drain loop builds for a successful pair
sql_result(query_data, result_data) ==
    LET bytes_before == result_data.before_result.total_bytes_processed
        bytes_after == result_data.after_result.total_bytes_processed
    IN  [query_id |-> query_data.query_id,
         original_query |-> query_data.original_query,
         optimized_query |-> query_data.optimized_query,
         bytes_before |-> bytes_before,
         bytes_after |-> bytes_after,
         cost_before_usd |-> result_data.before_result.estimated_cost_usd,
         cost_after_usd |-> result_data.after_result.estimated_cost_usd,
         \* ((bytes_before - bytes_after) / bytes_before) * 100, as a fraction
         savings_percent |->
            IF bytes_before > 0
            THEN [num |-> (bytes_before - bytes_after) * 100,
                  den |-> bytes_before]
            ELSE [num |-> 0, den |-> 1],
         optimizations_applied |-> query_data.optimizations_applied]

\* the pair looked up by the position of the future in the drain order
future_to_query_by_position(i) == optimized_queries[completed + 1]

\* query_data = future_to_query[future]
future_to_query(i) == optimized_queries[i]

\* the list built by step 2: "Query idx+1" of the idx-th generated query,
\* distinct generated texts (odd numbers), the text the LLM returned (even
\* numbers, or the original text again when noop names the pair)
Batch(n, noop) ==
    [i \in 1..n |->
        [query_id |-> i,
         original_query |-> 2 * i - 1,
         optimized_query |-> IF i = noop THEN 2 * i - 1 ELSE 2 * i,
         optimizations_applied |-> 100 + i]]

Queries(maxn) == 1..(2 * maxn)

\* results of an earlier run, still in the session
EarlierResults ==
    <<sql_result([query_id |-> 1, original_query |-> 1, optimized_query |-> 2,
                  optimizations_applied |-> 101],
                 [before_result |-> dry_run_body([kind |-> "bytes", bytes |-> 1]),
                  after_result |-> dry_run_body([kind |-> "bytes", bytes |-> 0])])>>

FanStart(batches, queries, stored) ==
    /\ optimized_queries \in batches
    /\ fpc = "ready"
    /\ task = <<>>
    /\ dry_cache = [q \in queries |-> NoDryEntry]
    /\ dry_calls = <<>>
    /\ completed = 0
    /\ results = <<>>
    /\ warned = {}
    /\ session_results \in stored
    /\ outcome = "running"

\* executor.submit for every pair of optimized_queries
Submit ==
    /\ fpc = "ready"
    /\ fpc' = "draining"
    /\ task' = [i \in 1..N |-> NoTask]
    /\ dry_calls' = [i \in 1..N |-> <<>>]
    /\ UNCHANGED <<optimized_queries, dry_cache, completed, results, warned,
                   session_results, outcome>>

\* a free worker takes the oldest queued work item
StartPair(i) ==
    /\ fpc = "draining"
    /\ i \in 1..N
    /\ task[i].st = "queued"
    /\ \A j \in 1..(i - 1) : task[j].st # "queued"
    /\ worker_free(InFlight)
    /\ task' = [task EXCEPT ![i].st = "original"]
    /\ UNCHANGED <<optimized_queries, fpc, dry_cache, dry_calls, completed,
                   results, warned, session_results, outcome>>

\* before_result = bigquery_service.dry_run_query(original_query)
DryRunOriginal(i, answer) ==
    /\ fpc = "draining"
    /\ i \in 1..N
    /\ task[i].st = "original"
    /\ LET q == optimized_queries[i]
           r == dry_run_query(dry_cache, q.original_query, answer, now)
           next == after_original(q.query_id, r)
       IN  /\ dry_cache' = r.cache
           /\ task' = [task EXCEPT ![i] =
                          IF next.running
                          THEN [st |-> "optimized", before_result |-> r.value,
                                ret |-> NoRet]
                          ELSE [st |-> "finished", before_result |-> NoDry,
                                ret |-> next.ret]]
           /\ dry_calls' = [dry_calls EXCEPT ![i] =
                               Append(@, DryCall("original", q.original_query, r))]
    /\ UNCHANGED <<optimized_queries, fpc, completed, results, warned,
                   session_results, outcome>>

\* after_result = bigquery_service.dry_run_query(optimized_query)
DryRunOptimized(i, answer) ==
    /\ fpc = "draining"
    /\ i \in 1..N
    /\ task[i].st = "optimized"
    /\ LET q == optimized_queries[i]
           r == dry_run_query(dry_cache, q.optimized_query, answer, now)
       IN  /\ dry_cache' = r.cache
           /\ task' = [task EXCEPT ![i] =
                          [st |-> "finished", before_result |-> NoDry,
                           ret |-> after_optimized(q.query_id,
                                                   task[i].before_result, r)]]
           /\ dry_calls' = [dry_calls EXCEPT ![i] =
                               Append(@, DryCall("optimized",
                                               q.optimized_query, r))]
    /\ UNCHANGED <<optimized_queries, fpc, completed, results, warned,
                   session_results, outcome>>

\* one iteration of "for future in as_completed(future_to_query)"
Drain(i) ==
    /\ fpc = "draining"
    /\ i \in 1..N
    /\ task[i].st = "finished"
    /\ task' = [task EXCEPT ![i].st = "drained"]
    /\ completed' = completed + 1
    /\ IF task[i].ret.success
       THEN /\ results' = Append(results,
                                 sql_result(future_to_query(i), task[i].ret))
            /\ UNCHANGED warned
       ELSE /\ warned' = warned \cup {task[i].ret.query_id}
            /\ UNCHANGED results
    /\ UNCHANGED <<optimized_queries, fpc, dry_cache, dry_calls,
                   session_results, outcome>>

\* the session overwritten whatever the list holds
stored_after_always(res, stored) == res

\* store the results unless the list is empty
stored_after(res, stored) == IF res = <<>> THEN stored ELSE res

\* as_completed is exhausted and the executor shut down: steps 5 and summary
EndBatch ==
    /\ fpc = "draining"
    /\ \A i \in 1..N : task[i].st = "drained"
    /\ fpc' = "ended"
    /\ session_results' = stored_after(results, session_results)
    /\ outcome' = IF results = <<>> THEN "no_queries_optimized" ELSE "complete"
    /\ UNCHANGED <<optimized_queries, task, dry_cache, dry_calls, completed,
                   results, warned>>

\* no dry run yet outside a batch
DryIdle == dry_log = <<>>

MaxDryCalls == 2        \* dry_run_query calls in one behaviour

\* one call of dry_run_query: what it was asked, what the provider would
\* answer, and what came back
DryRun(query, answer) ==
    /\ Len(dry_log) < MaxDryCalls
    /\ LET r == dry_run_query(dry_cache, query, answer, now)
       IN  /\ dry_cache' = r.cache
           /\ dry_log' = Append(dry_log,
                                [query |-> query, t |-> now, answer |-> answer,
                                 calls |-> r.calls, raised |-> r.raised,
                                 value |-> r.value])
    /\ UNCHANGED <<optimized_queries, fpc, task, dry_calls, completed, results,
                   warned, session_results, outcome>>

----------------------------------------------------------------------------
(* Config: class attributes read from the environment when the module is   *)
(* imported, and Config.validate                                           *)

Unset == "<unset>"      \* os.getenv of a variable that is not set: None

\* "not value": None and the empty text are false
falsy(value) == value \in {Unset, ""}

ProjectIds == {Unset, "", "project"}
ApiKeys == {Unset, "", "key"}
Providers == {"gemini", "openai", "Gemini", "OpenAI", "azure", ""}

Configs ==
    [BIGQUERY_PROJECT_ID : ProjectIds, AI_PROVIDER : Providers,
     GEMINI_API_KEY : ApiKeys, OPENAI_API_KEY : ApiKeys]

\* validate without its last test
Config_validate_two_tests(c) ==
    (IF falsy(c.BIGQUERY_PROJECT_ID)
     THEN <<"GCP_PROJECT_ID is not set">> ELSE <<>>)
    \o (IF c.AI_PROVIDER = "gemini" /\ falsy(c.GEMINI_API_KEY)
        THEN <<"GEMINI_API_KEY is required when using Gemini provider">>
        ELSE <<>>)
    \o (IF c.AI_PROVIDER = "openai" /\ falsy(c.OPENAI_API_KEY)
        THEN <<"OPENAI_API_KEY is required when using OpenAI provider">>
        ELSE <<>>)

\* Config.validate(): the list of error messages
Config_validate(c) ==
    (IF falsy(c.BIGQUERY_PROJECT_ID)
     THEN <<"GCP_PROJECT_ID is not set">> ELSE <<>>)
    \o (IF c.AI_PROVIDER = "gemini" /\ falsy(c.GEMINI_API_KEY)
        THEN <<"GEMINI_API_KEY is required when using Gemini provider">>
        ELSE <<>>)
    \o (IF c.AI_PROVIDER = "openai" /\ falsy(c.OPENAI_API_KEY)
        THEN <<"OPENAI_API_KEY is required when using OpenAI provider">>
        ELSE <<>>)
    \o (IF c.AI_PROVIDER \notin {"gemini", "openai"}
        THEN <<"AI_PROVIDER must be either 'gemini' or 'openai'">>
        ELSE <<>>)

\* str.lower on the provider names
lower(provider) ==
    CASE provider = "Gemini" -> "gemini"
      [] provider = "OpenAI" -> "openai"
      [] OTHER -> provider

\* api_key=Config.GEMINI_API_KEY if Config.AI_PROVIDER == "gemini"
\*         else Config.OPENAI_API_KEY
api_key_chosen(c) ==
    IF c.AI_PROVIDER = "gemini" THEN c.GEMINI_API_KEY ELSE c.OPENAI_API_KEY

NoService == [raised |-> FALSE, api_key |-> Unset, provider |-> "none"]

\* AIOptimizerService.__init__: ValueError for an unsupported provider
AIOptimizerService_init(api_key, provider) ==
    IF lower(provider) \in {"gemini", "openai"}
    THEN [raised |-> FALSE, api_key |-> api_key, provider |-> lower(provider)]
    ELSE [raised |-> TRUE, api_key |-> api_key, provider |-> lower(provider)]

----------------------------------------------------------------------------
(* The four domain workflows, one run at a time on the script thread:      *)
(* validate, initialize services, generate, call the LLM client, build and *)
(* store the results. The storage, schedule and ML workflows have the same *)
(* steps; the SQL workflow calls the LLM client once per generated query   *)
(* and then runs the fan-out.                                              *)

Domains == {"sql", "storage", "schedule", "ml"}
MetaDomains == Domains \ {"sql"}

MaxRuns == 2            \* workflow runs in one behaviour
MaxNames == 2           \* names a generator draws from
MaxWfQueries == 2       \* queries the SQL generator returns

MergeName == 0          \* the name "Merge: a, b": the name of no query

NoStored == [metadata |-> [run |-> 0, names |-> {}],
             analysis |-> 0,
             results |-> {}]

NoIssued == [services |-> 0, generator |-> 0, llm |-> 0, dry |-> 0]

NoRun ==
    [domain |-> "sql", pc |-> "idle", run |-> 0, ai |-> NoService,
     names |-> {}, n |-> 0, idx |-> 0, acc |-> <<>>,
     failed |-> "none", llm_failed_at |-> 0]

\* a complete configuration and a session in which no workflow has run
WfIdle ==
    /\ cfg = [BIGQUERY_PROJECT_ID |-> "project", AI_PROVIDER |-> "gemini",
              GEMINI_API_KEY |-> "key", OPENAI_API_KEY |-> Unset]
    /\ wf = NoRun
    /\ session = [d \in MetaDomains |-> NoStored]
    /\ issued = NoIssued
    /\ report = "none"

\* the run ends here: st.error and return
Fails(step, message) ==
    /\ wf' = [wf EXCEPT !.pc = "idle", !.failed = step]
    /\ report' = message

\* the locals of the SQL workflow as a run finds them; the dry-run cache and
\* the session outlive the run
FreshLocals ==
    /\ optimized_queries' = <<>>
    /\ fpc' = "ready"
    /\ task' = <<>>
    /\ dry_calls' = <<>>
    /\ completed' = 0
    /\ results' = <<>>
    /\ warned' = {}
    /\ outcome' = "running"
    /\ UNCHANGED <<dry_cache, session_results>>

\* a run that goes on to the services whatever validate returns
Start_unvalidated(d) ==
    /\ wf.pc = "idle"
    /\ wf.run < MaxRuns
    /\ issued' = NoIssued
    /\ wf' = [NoRun EXCEPT !.domain = d, !.run = wf.run + 1, !.pc = "init"]
    /\ report' = "started"
    /\ FreshLocals
    /\ UNCHANGED <<cfg, session>>

\* the button of a module is pressed: config_errors = Config.validate()
Start(d) ==
    /\ wf.pc = "idle"
    /\ wf.run < MaxRuns
    /\ issued' = NoIssued
    /\ IF Config_validate(cfg) # <<>>
       THEN /\ wf' = [NoRun EXCEPT !.domain = d, !.run = wf.run + 1,
                                   !.failed = "config"]
            /\ report' = "configuration_error"
       ELSE /\ wf' = [NoRun EXCEPT !.domain = d, !.run = wf.run + 1,
                                   !.pc = "init"]
            /\ report' = "started"
    /\ FreshLocals
    /\ UNCHANGED <<cfg, session>>

\* the services are constructed; raises: a constructor other than that of
\* the LLM client raises
InitServices(raises) ==
    /\ wf.pc = "init"
    /\ issued' = [issued EXCEPT !.services = @ + 1]
    /\ LET ai == AIOptimizerService_init(api_key_chosen(cfg), cfg.AI_PROVIDER)
       IN  IF raises \/ ai.raised
           THEN Fails("init", "initialization_error")
           ELSE /\ wf' = [wf EXCEPT !.pc = "generate", !.ai = ai]
                /\ report' = "initialized"
    /\ UNCHANGED <<cfg, session>>

\* step 1 of the storage, schedule and ML workflows: the generator returns
\* records with these names, which are stored in the session at once
GenerateMetadata(raises, names) ==
    /\ wf.pc = "generate"
    /\ wf.domain \in MetaDomains
    /\ issued' = [issued EXCEPT !.generator = @ + 1]
    /\ IF raises
       THEN Fails("generate", "generation_error") /\ UNCHANGED session
       ELSE /\ wf' = [wf EXCEPT !.pc = "analyze", !.names = names]
            /\ session' = [session EXCEPT ![wf.domain].metadata =
                                [run |-> wf.run, names |-> names]]
            /\ report' = "generated"
    /\ UNCHANGED cfg

\* the result records built from what the LLM client returned: one for each
\* suggestion whose name is that of a generated record and, in the schedule
\* workflow, one for a merge opportunity of two queries or more
build_results(d, names, suggested, merge, run) ==
    {[name |-> nm, run |-> run] : nm \in suggested \cap names}
    \cup (IF d = "schedule" /\ merge
          THEN {[name |-> MergeName, run |-> run]} ELSE {})

\* the results left in the session after the last step
results_after(res, stored) == IF res = {} THEN stored ELSE res

\* step 2 and the steps after it: the one LLM-client call of the run, the
\* result records, the store
Analyze(a) ==
    /\ wf.pc = "analyze"
    /\ issued' = [issued EXCEPT !.llm = @ + 1]
    /\ LET d == wf.domain
           res == build_results(d, wf.names, a.suggested, a.merge, wf.run)
           analysed == IF d = "storage" THEN session
                       ELSE [session EXCEPT ![d].analysis = wf.run]
       IN  IF a.kind = "raises"
           THEN Fails("analyze", "analysis_error") /\ UNCHANGED session
           ELSE IF a.kind = "unexpected"
           THEN \* an exception while the records are built: the outer except
                Fails("process", "critical_error") /\ session' = analysed
           ELSE /\ wf' = [wf EXCEPT !.pc = "idle"]
                /\ session' = [analysed EXCEPT ![d].results =
                                   results_after(res, @)]
                /\ report' = IF res = {} THEN "no_suggestions" ELSE "complete"
    /\ UNCHANGED cfg

\* the names of the records a generator returns: one record, or all
NameSets == {{nm} : nm \in 1..MaxNames} \cup {1..MaxNames}

\* what the LLM-client call of a run may do: raise, return suggestions for
\* no name, one name or all names, or return what makes the processing raise
Analyses ==
    {[kind |-> k, suggested |-> {}, merge |-> FALSE] :
        k \in {"raises", "unexpected"}}
    \cup {[kind |-> "returns", suggested |-> sg, merge |-> m] :
            sg \in NameSets \cup {{}}, m \in BOOLEAN}

\* step 1 of the SQL workflow: n unoptimized queries, kept in a local
GenerateQueries(raises, n) ==
    /\ wf.pc = "generate"
    /\ wf.domain = "sql"
    /\ issued' = [issued EXCEPT !.generator = @ + 1]
    /\ IF raises
       THEN Fails("generate", "generation_error")
       ELSE /\ wf' = [wf EXCEPT !.pc = "optimize", !.n = n, !.idx = 1]
            /\ report' = "generated"
    /\ UNCHANGED <<cfg, session>>

\* the pair appended for the query at position idx (query_id "Query idx")
optimized_pair(idx) ==
    [query_id |-> idx, original_query |-> 2 * idx - 1,
     optimized_query |-> 2 * idx, optimizations_applied |-> 100 + idx]

\* the loop left at the first query that fails
next_idx_break(idx, n, ok) == IF ok THEN idx + 1 ELSE n + 1

\* "continue": the loop goes on after a query that failed
next_idx(idx, n, ok) == idx + 1

\* one iteration of step 2 of the SQL workflow: optimize_sql_query for the
\* query at position idx; after the last one, the fan-out or the end
OptimizeQuery(ok) ==
    /\ wf.pc = "optimize"
    /\ wf.idx <= wf.n
    /\ issued' = [issued EXCEPT !.llm = @ + 1]
    /\ LET acc == IF ok THEN Append(wf.acc, optimized_pair(wf.idx))
                  ELSE wf.acc
           idx == next_idx(wf.idx, wf.n, ok)
           seen == IF ~ok /\ wf.llm_failed_at = 0 THEN wf.idx
                   ELSE wf.llm_failed_at
       IN  IF idx <= wf.n
           THEN /\ wf' = [wf EXCEPT !.idx = idx, !.acc = acc,
                                    !.llm_failed_at = seen]
                /\ report' = IF ok THEN "optimized" ELSE "query_warning"
                /\ UNCHANGED fanVars
           ELSE IF acc = <<>>
           THEN /\ wf' = [wf EXCEPT !.pc = "idle", !.idx = idx,
                                    !.failed = "optimize",
                                    !.llm_failed_at = seen]
                /\ report' = "no_queries_optimized_by_ai"
                /\ UNCHANGED fanVars
           ELSE /\ wf' = [wf EXCEPT !.pc = "fanout", !.idx = idx, !.acc = acc,
                                    !.llm_failed_at = seen]
                /\ report' = "dry_runs"
                /\ optimized_queries' = acc
                /\ UNCHANGED <<fpc, task, dry_cache, dry_calls, completed,
                               results, warned, session_results, outcome>>
    /\ UNCHANGED <<cfg, session>>

\* a loop whose calls go on while the fan-out runs
in_loop_during_fanout(w) == w.pc \in {"optimize", "fanout"} /\ w.n > 0

\* "for idx, original_query in enumerate(unoptimized_queries)" has a query
\* left to send
in_loop(w) == w.pc = "optimize" /\ w.idx <= w.n

\* the script thread enters ai_optimizer.optimize_sql_query and stays in it
\* until the call returns or raises
BeginOptimize ==
    /\ in_loop(wf)
    /\ pc = "idle"
    /\ pc' = "retry"
    /\ UNCHANGED <<now, ai_cache, cur, attempt, calls, waits, kinds, raised,
                   caught, reply, response_text, last, log>>

\* the call returns (ok) or raises: the rest of the iteration
ReturnOptimize(ok) ==
    /\ pc = "retry"
    /\ OptimizeQuery(ok)
    /\ pc' = "idle"
    /\ UNCHANGED <<now, ai_cache, cur, attempt, calls, waits, kinds, raised,
                   caught, reply, response_text, last, log>>

\* a step of the fan-out inside a run of the SQL workflow
InFanout(dry) ==
    /\ wf.pc = "fanout"
    /\ issued' = [issued EXCEPT !.dry = @ + dry]
    /\ UNCHANGED <<cfg, wf, session, report>>

\* the end of the fan-out is the end of the run
EndRun ==
    /\ wf.pc = "fanout"
    /\ EndBatch
    /\ wf' = [wf EXCEPT !.pc = "idle",
                        !.failed = IF results = <<>> THEN "dry_runs" ELSE @]
    /\ report' = outcome'
    /\ UNCHANGED <<cfg, session, issued>>

\* every provider answer
DryErrorTexts == {<<"401">>, <<"Authentication", "failed">>, <<"Syntax error">>}

DryAnswers ==
    {[kind |-> "bytes", bytes |-> b, text |-> <<>>] : b \in 0..MaxBytes}
    \cup {[kind |-> k, bytes |-> 0, text |-> e] :
            k \in {"raises", "escapes"}, e \in DryErrorTexts}

FanNext ==
    \/ Submit /\ UNCHANGED <<aiVars, dryVars, wfVars, aggVars>>
    \/ \E i \in 1..MaxPairs : StartPair(i) /\ UNCHANGED <<aiVars, dryVars, wfVars, aggVars>>
    \/ \E i \in 1..MaxPairs, a \in DryAnswers :
          DryRunOriginal(i, a) /\ UNCHANGED <<aiVars, dryVars, wfVars, aggVars>>
    \/ \E i \in 1..MaxPairs, a \in DryAnswers :
          DryRunOptimized(i, a) /\ UNCHANGED <<aiVars, dryVars, wfVars, aggVars>>
    \/ \E i \in 1..MaxPairs : Drain(i) /\ UNCHANGED <<aiVars, dryVars, wfVars, aggVars>>
    \/ EndBatch /\ UNCHANGED <<aiVars, dryVars, wfVars, aggVars>>

\* the answers of a batch that fills the pool: bytes, or a failure while
\* no pair has failed (at most one pair of the batch fails)
PoolAnswers ==
    {[kind |-> "bytes", bytes |-> 1, text |-> <<>>],
     [kind |-> "raises", bytes |-> 0, text |-> <<"Syntax error">>]}

PoolNext ==
    \/ Submit /\ UNCHANGED <<aiVars, dryVars, wfVars, aggVars>>
    \/ \E i \in 1..MaxPoolPairs : StartPair(i) /\ UNCHANGED <<aiVars, dryVars, wfVars, aggVars>>
    \/ \E i \in 1..MaxPoolPairs, a \in PoolAnswers :
          /\ DryRunOriginal(i, a) /\ UNCHANGED <<aiVars, dryVars, wfVars, aggVars>>
          /\ a.kind = "bytes" \/ FailedPairs = {}
    \/ \E i \in 1..MaxPoolPairs, a \in PoolAnswers :
          /\ DryRunOptimized(i, a) /\ UNCHANGED <<aiVars, dryVars, wfVars, aggVars>>
          /\ a.kind = "bytes" \/ FailedPairs = {}
    \/ \E i \in 1..MaxPoolPairs : Drain(i) /\ UNCHANGED <<aiVars, dryVars, wfVars, aggVars>>
    \/ EndBatch /\ UNCHANGED <<aiVars, dryVars, wfVars, aggVars>>

----------------------------------------------------------------------------
(* The generators of src/simulators. The random module is a choice among   *)
(* the values a draw can have; sizes are kept in hundredths of a GB, times *)
(* in seconds. Of the list a loop builds the state keeps the length and    *)
(* the record appended last: every record of the list is that record in    *)
(* the state its iteration leaves.                                         *)

min_count == 5          \* st.slider(min_value=5): buckets, schedules, jobs
max_count == 20         \* st.slider(max_value=20)
min_queries == 3        \* st.slider(min_value=3): queries
max_queries == 10       \* st.slider(max_value=10)

STORAGE_CLASSES == {"STANDARD", "NEARLINE", "COLDLINE", "ARCHIVE"}

\* round(x, 2) of a value given in thousandths, in hundredths
round2(thousandths) == (thousandths + 5) \div 10

\* random.uniform(a, b): the ends of the range and a value between two
\* hundredths
uniform(a, b) == {a * 1000, a * 1000 + 4, b * 1000}

\* the three branches on size_distribution: the range of the draw
SizeRanges == {<<1, 100>>, <<100, 1000>>, <<1000, 10000>>}

\* random.randint(1, 365): the ends and the values around 30 and 90
DaysAgo == {1, 29, 30, 89, 90, 365}

\* the lists random.choice draws the storage class from
class_choices(days_ago) ==
    IF days_ago < 30 THEN {"STANDARD", "NEARLINE"}
    ELSE IF days_ago < 90 THEN {"STANDARD", "NEARLINE", "COLDLINE"}
    ELSE {"NEARLINE", "COLDLINE", "ARCHIVE"}

\* the body of the loop of generate_bucket_metadata at time t: the record
\* appended
bucket(nm, u, days_ago, c, t) ==
    [name |-> nm, size_gb |-> round2(u),
     last_accessed |-> t - days_ago * 86400, storage_class |-> c]

NoRecord == [name |-> 0, size_gb |-> 0, last_accessed |-> 0,
             storage_class |-> "none"]

\* the record of the schedule and ML generators: its name ends in i + 1
numbered(i) == [NoRecord EXCEPT !.name = i + 1]

\* full_table = f"[dataset].[table]" between backquotes, as one word
FullTables == {"samples.shakespeare", "samples.natality"}

\* the ten anti-pattern templates, as sequences of words
templates(full_table) ==
    << <<"SELECT", "*", "FROM", full_table>>,
       <<"SELECT", "*", "FROM", full_table, "ORDER", "BY", "RAND()",
         "LIMIT", "100">>,
       <<"SELECT", "*", "FROM", full_table, "LIMIT", "1000">>,
       <<"SELECT", "*", "FROM", full_table, "t1", "CROSS", "JOIN",
         full_table, "t2", "LIMIT", "10">>,
       <<"SELECT", "*", "FROM", "(SELECT", "*", "FROM", full_table, ")",
         "AS", "subquery">>,
       <<"SELECT", "*", "FROM", full_table, "t1", "JOIN", full_table, "t2",
         "ON", "t1.id", "=", "t2.id">>,
       <<"SELECT", "COUNT(*),", "AVG(*)", "FROM", full_table>>,
       <<"SELECT", "DISTINCT", "*", "FROM", full_table>>,
       <<"SELECT", "*", "FROM", "(SELECT", "*", "FROM", "(SELECT", "*",
         "FROM", full_table, ")", "t1)", "t2", "LIMIT", "50">>,
       <<"SELECT", "*", "FROM", full_table, "WHERE", "1=1", "ORDER", "BY",
         "RAND()">> >>

\* a sample as large as the population
sample_size_all(count, len) == len

\* min(count, len(templates))
sample_size(count, len) == IF count < len THEN count ELSE len

\* the elements of a set of positions, lowest first
RECURSIVE ascending(_)
ascending(S) ==
    IF S = {} THEN <<>>
    ELSE LET lo == CHOOSE x \in S : \A y \in S : x <= y
         IN  <<lo>> \o ascending(S \ {lo})

reversed(sq) == [k \in 1..Len(sq) |-> sq[Len(sq) + 1 - k]]

\* random.sample(population, k): k positions, no position twice; of the
\* orders a sample can have, the lowest first and the highest first
sample(population, k) ==
    UNION {{[j \in 1..k |-> population[ascending(S)[j]]],
            [j \in 1..k |-> population[reversed(ascending(S))[j]]]} :
              S \in {T \in SUBSET (1..Len(population)) : Cardinality(T) = k}}

NoGen == [kind |-> "none", count |-> 0, i |-> 0, n |-> 0, last |-> NoRecord,
          out |-> <<>>, pc |-> "idle"]

Generators == {"buckets", "schedules", "jobs", "queries"}

\* the counts the slider of a module lets through
Counts(kind) ==
    IF kind = "queries" THEN min_queries..max_queries
    ELSE min_count..max_count

\* one iteration of "for i in range(count)" in generate_bucket_metadata
AppendBucket(nm, u, days_ago, c) ==
    /\ gen.kind = "buckets" /\ gen.pc = "loop"
    /\ gen.i < gen.count
    /\ gen' = [gen EXCEPT !.i = @ + 1, !.n = @ + 1,
                          !.last = bucket(nm, u, days_ago, c, now)]

\* one iteration of the loop of generate_scheduled_queries and of
\* generate_training_jobs
AppendNumbered ==
    /\ gen.kind \in {"schedules", "jobs"} /\ gen.pc = "loop"
    /\ gen.i < gen.count
    /\ gen' = [gen EXCEPT !.i = @ + 1, !.n = @ + 1, !.last = numbered(gen.i)]

\* range(count) is exhausted: return the list
ReturnList ==
    /\ gen.kind \in {"buckets", "schedules", "jobs"} /\ gen.pc = "loop"
    /\ gen.i >= gen.count
    /\ gen' = [gen EXCEPT !.pc = "returned"]

\* generate_unoptimized_queries: the sample of the templates
SampleQueries(full_table) ==
    /\ gen.kind = "queries" /\ gen.pc = "loop"
    /\ \E selected_queries \in
             sample(templates(full_table),
                    sample_size(gen.count, Len(templates(full_table)))) :
          gen' = [gen EXCEPT !.pc = "returned", !.out = selected_queries,
                             !.n = Len(selected_queries)]

----------------------------------------------------------------------------
(* The processing loops that turn the suggestions of the LLM client into   *)
(* result records: storage_optimization.py, ml_autoscaling.py and          *)
(* query_scheduling.py. A metadata record is its name; a result record     *)
(* keeps its type, the name it shows and the metadata positions it took    *)
(* its figures from.                                                       *)

MaxMeta == 3            \* metadata records of a run
MaxSuggestions == 2     \* entries in the answer of the LLM client
MaxMergeQueries == 3    \* query names in one merge opportunity

\* the names a suggestion may carry; the last one is in no metadata list
AggNames == 1..(MaxMeta + 1)

\* next((b for b in metadata if b['name'] == name), None): the position of
\* the first record of that name, 0 for None
RECURSIVE find_from(_, _, _)
find_from(metadata, name, k) ==
    IF k > Len(metadata) THEN 0
    ELSE IF metadata[k] = name THEN k
    ELSE find_from(metadata, name, k + 1)

find(metadata, name) == find_from(metadata, name, 1)

\* a loop that appends a record for every suggestion, matched or not
RECURSIVE process_suggestions_unmatched_too(_, _, _)
process_suggestions_unmatched_too(metadata, suggestions, type) ==
    IF suggestions = <<>> THEN <<>>
    ELSE <<[type |-> type, name |-> <<Head(suggestions)>>,
            from |-> <<find(metadata, Head(suggestions))>>]>>
         \o process_suggestions_unmatched_too(metadata, Tail(suggestions), type)

\* "for suggestion in suggestions: info = next(...); if info: append"
RECURSIVE process_suggestions(_, _, _)
process_suggestions(metadata, suggestions, type) ==
    IF suggestions = <<>> THEN <<>>
    ELSE LET at == find(metadata, Head(suggestions))
         IN  (IF at # 0
              THEN <<[type |-> type, name |-> <<Head(suggestions)>>,
                      from |-> <<at>>]>>
              ELSE <<>>)
             \o process_suggestions(metadata, Tail(suggestions), type)

\* "for q_name in queries: ... if schedule_info: combined_cost += ...":
\* the positions whose cost is added
RECURSIVE combined_from(_, _)
combined_from(metadata, queries) ==
    IF queries = <<>> THEN <<>>
    ELSE LET at == find(metadata, Head(queries))
         IN  (IF at # 0 THEN <<at>> ELSE <<>>)
             \o combined_from(metadata, Tail(queries))

\* queries[:2]
first_two(queries) ==
    IF Len(queries) <= 2 THEN queries ELSE SubSeq(queries, 1, 2)

\* "for merge in merge_opportunities: if len(queries) >= 2: ... append"
RECURSIVE process_merges(_, _)
process_merges(metadata, merges) ==
    IF merges = <<>> THEN <<>>
    ELSE (IF Len(Head(merges)) >= 2
          THEN <<[type |-> "merge", name |-> first_two(Head(merges)),
                  from |-> combined_from(metadata, Head(merges))]>>
          ELSE <<>>)
         \o process_merges(metadata, Tail(merges))

\* the result list of one run, in the order the loops append to it
process(d, metadata, analysis) ==
    IF d = "schedule"
    THEN process_suggestions(metadata, analysis.suggestions,
                             "reduce_frequency")
         \o process_merges(metadata, analysis.merges)
         \o process_suggestions(metadata, analysis.candidates,
                                "materialized_view")
    ELSE process_suggestions(metadata, analysis.suggestions, d)

NoAnalysis == [suggestions |-> <<>>, merges |-> <<>>, candidates |-> <<>>]

\* the session key is written whether or not the list is empty
session_after_always(res, stored) == res

\* "if not results: ... return" before the session key is written
session_after(res, stored) == IF res = <<>> THEN stored ELSE res

\* earlier: the results key of the session when the run began; stored: the
\* key when it ended
NoAgg == [domain |-> "none", metadata |-> <<>>, analysis |-> NoAnalysis,
          pc |-> "idle", results |-> <<>>, earlier |-> <<>>,
          stored |-> <<>>, outcome |-> "none"]

\* the result list an earlier run left in the session
EarlierRun == <<[type |-> "earlier", name |-> <<1>>, from |-> <<1>>]>>

\* no processing loop and no generator call outside their specifications
AggIdle == agg = NoAgg /\ gen = NoGen

\* the names of n records of the schedule and ML generators, which end
\* in the position of the record
Numbered(n) == [k \in 1..n |-> k]

\* bucket names are drawn at random and may repeat
Metadata(d) ==
    IF d = "storage" THEN SeqsUpTo(1..MaxMeta, MaxMeta)
    ELSE {Numbered(n) : n \in 1..MaxMeta}

Lists(S, n) == {<<>>} \cup SeqsUpTo(S, n)

\* what the LLM client may return: suggestions for any names, in the
\* schedule domain also one merge opportunity and candidates
AnalysesOf(d) ==
    IF d = "schedule"
    THEN {a \in [suggestions : Lists(AggNames, MaxSuggestions),
                 merges : {<<>>} \cup {<<m>> : m \in Lists(AggNames, MaxMergeQueries)},
                 candidates : Lists(AggNames, MaxSuggestions)] :
            Len(a.suggestions) + Len(a.merges) + Len(a.candidates)
                <= MaxSuggestions}
    ELSE {[NoAnalysis EXCEPT !.suggestions = sg] :
            sg \in Lists(AggNames, MaxSuggestions)}

\* the loops of one run and what follows them: the warning and the return
\* when the list is empty, the store when it is not
Process ==
    /\ agg.pc = "ready"
    /\ LET res == process(agg.domain, agg.metadata, agg.analysis)
       IN  agg' = [agg EXCEPT !.pc = "done",
                              !.results = res,
                              !.stored = session_after(res, agg.earlier),
                              !.outcome = IF res = <<>> THEN "no_suggestions"
                                          ELSE "complete"]
    /\ UNCHANGED gen

\* a complete configuration; no workflow has run
WfInit ==
    /\ AIStart("optimize_sql_query")
    /\ FanStart({<<>>}, Queries(MaxWfQueries), {<<>>})
    /\ DryIdle /\ WfIdle /\ AggIdle

MaxConfigRuns == 1      \* workflow runs in one behaviour of ConfigSpec

\* every configuration the environment can give; no workflow has run
ConfigInit ==
    /\ AIStart("optimize_sql_query")
    /\ FanStart({<<>>}, Queries(MaxWfQueries), {<<>>})
    /\ DryIdle
    /\ cfg \in Configs
    /\ wf = NoRun
    /\ session = [d \in MetaDomains |-> NoStored]
    /\ issued = NoIssued
    /\ report = "none"
    /\ AggIdle

(* Runs of the four workflows, one after the other, every step of which    *)
(* may fail. The pairs of a fan-out are taken one at a time here: FanSpec  *)
(* and PoolSpec have the concurrent schedules.                             *)
WfNext ==
    \/ \E d \in Domains : Start(d) /\ UNCHANGED <<aiVars, dryVars, aggVars>>
    \/ \E raises \in BOOLEAN :
          InitServices(raises) /\ UNCHANGED <<aiVars, fanVars, dryVars, aggVars>>
    \/ \E raises \in BOOLEAN, names \in NameSets :
          GenerateMetadata(raises, names)
          /\ UNCHANGED <<aiVars, fanVars, dryVars, aggVars>>
    \/ \E a \in Analyses :
          /\ Analyze(a) /\ UNCHANGED <<aiVars, fanVars, dryVars, aggVars>>
          /\ a.merge => wf.domain = "schedule"
    \/ \E raises \in BOOLEAN, n \in 1..MaxWfQueries :
          GenerateQueries(raises, n) /\ UNCHANGED <<aiVars, fanVars, dryVars, aggVars>>
    \/ \E ok \in BOOLEAN : OptimizeQuery(ok) /\ UNCHANGED <<aiVars, dryVars, aggVars>>
    \/ Submit /\ InFanout(0) /\ UNCHANGED <<aiVars, dryVars, aggVars>>
    \/ \E i \in 1..MaxWfQueries :
          /\ StartPair(i) /\ InFanout(0) /\ UNCHANGED <<aiVars, dryVars, aggVars>>
          /\ InFlight = {} /\ \A j \in DOMAIN task : task[j].st # "finished"
    \/ \E i \in 1..MaxWfQueries, a \in PoolAnswers :
          DryRunOriginal(i, a) /\ InFanout(1) /\ UNCHANGED <<aiVars, dryVars, aggVars>>
    \/ \E i \in 1..MaxWfQueries, a \in PoolAnswers :
          DryRunOptimized(i, a) /\ InFanout(1) /\ UNCHANGED <<aiVars, dryVars, aggVars>>
    \/ \E i \in 1..MaxWfQueries :
          Drain(i) /\ InFanout(0) /\ UNCHANGED <<aiVars, dryVars, aggVars>>
    \/ EndRun /\ UNCHANGED <<aiVars, dryVars, aggVars>>

\* runs of the SQL workflow between which, and during which, time passes
WindowNext ==
    \/ Tick /\ UNCHANGED <<fanVars, dryVars, wfVars, aggVars>>
    \/ Start("sql") /\ UNCHANGED <<aiVars, dryVars, aggVars>>
    \/ \E raises \in BOOLEAN :
          InitServices(raises) /\ UNCHANGED <<aiVars, fanVars, dryVars, aggVars>>
    \/ \E raises \in BOOLEAN, n \in 1..MaxWfQueries :
          GenerateQueries(raises, n) /\ UNCHANGED <<aiVars, fanVars, dryVars, aggVars>>
    \/ \E ok \in BOOLEAN : OptimizeQuery(ok) /\ UNCHANGED <<aiVars, dryVars, aggVars>>
    \/ Submit /\ InFanout(0) /\ UNCHANGED <<aiVars, dryVars, aggVars>>
    \/ \E i \in 1..MaxWfQueries :
          /\ StartPair(i) /\ InFanout(0) /\ UNCHANGED <<aiVars, dryVars, aggVars>>
          /\ InFlight = {} /\ \A j \in DOMAIN task : task[j].st # "finished"
    \/ \E i \in 1..MaxWfQueries, a \in PoolAnswers :
          DryRunOriginal(i, a) /\ InFanout(1) /\ UNCHANGED <<aiVars, dryVars, aggVars>>
    \/ \E i \in 1..MaxWfQueries, a \in PoolAnswers :
          DryRunOptimized(i, a) /\ InFanout(1) /\ UNCHANGED <<aiVars, dryVars, aggVars>>
    \/ \E i \in 1..MaxWfQueries :
          Drain(i) /\ InFanout(0) /\ UNCHANGED <<aiVars, dryVars, aggVars>>
    \/ EndRun /\ UNCHANGED <<aiVars, dryVars, aggVars>>

\* runs of the SQL workflow with the LLM calls taking time and the work
\* units of the fan-out running side by side
OverlapNext ==
    \/ Start("sql") /\ UNCHANGED <<aiVars, dryVars, aggVars>>
    \/ \E raises \in BOOLEAN :
          InitServices(raises) /\ UNCHANGED <<aiVars, fanVars, dryVars, aggVars>>
    \/ \E raises \in BOOLEAN, n \in 1..MaxWfQueries :
          GenerateQueries(raises, n)
          /\ UNCHANGED <<aiVars, fanVars, dryVars, aggVars>>
    \/ BeginOptimize /\ UNCHANGED <<fanVars, dryVars, wfVars, aggVars>>
    \/ \E ok \in BOOLEAN : ReturnOptimize(ok) /\ UNCHANGED <<dryVars, aggVars>>
    \/ Submit /\ InFanout(0) /\ UNCHANGED <<aiVars, dryVars, aggVars>>
    \/ \E i \in 1..MaxWfQueries :
          StartPair(i) /\ InFanout(0) /\ UNCHANGED <<aiVars, dryVars, aggVars>>
    \/ \E i \in 1..MaxWfQueries, a \in PoolAnswers :
          DryRunOriginal(i, a) /\ InFanout(1)
          /\ UNCHANGED <<aiVars, dryVars, aggVars>>
    \/ \E i \in 1..MaxWfQueries, a \in PoolAnswers :
          DryRunOptimized(i, a) /\ InFanout(1)
          /\ UNCHANGED <<aiVars, dryVars, aggVars>>
    \/ \E i \in 1..MaxWfQueries :
          Drain(i) /\ InFanout(0) /\ UNCHANGED <<aiVars, dryVars, aggVars>>
    \/ EndRun /\ UNCHANGED <<aiVars, dryVars, aggVars>>

\* the runs of a process, whatever its configuration
ConfigNext == WfNext /\ wf'.run <= MaxConfigRuns

MaxSavingsBytes == 2    \* largest byte count of a batch that succeeds

\* a batch of two pairs whose dry runs all succeed
SavingsAnswers ==
    {[kind |-> "bytes", bytes |-> b, text |-> <<>>] : b \in 0..MaxSavingsBytes}

SavingsInit ==
    /\ AIStart("optimize_sql_query")
    /\ FanStart({Batch(2, 0)}, Queries(2), {<<>>})
    /\ DryIdle /\ WfIdle /\ AggIdle

SavingsNext ==
    \/ Submit /\ UNCHANGED <<aiVars, dryVars, wfVars, aggVars>>
    \/ \E i \in 1..2 : StartPair(i) /\ UNCHANGED <<aiVars, dryVars, wfVars, aggVars>>
    \/ \E i \in 1..2, a \in SavingsAnswers :
          DryRunOriginal(i, a) /\ UNCHANGED <<aiVars, dryVars, wfVars, aggVars>>
    \/ \E i \in 1..2, a \in SavingsAnswers :
          DryRunOptimized(i, a) /\ UNCHANGED <<aiVars, dryVars, wfVars, aggVars>>
    \/ \E i \in 1..2 : Drain(i) /\ UNCHANGED <<aiVars, dryVars, wfVars, aggVars>>
    \/ EndBatch /\ UNCHANGED <<aiVars, dryVars, wfVars, aggVars>>

\* batches of two pairs in which a query text occurs twice: the LLM left
\* query 1 as it was, gave queries 1 and 2 the same rewrite, or rewrote
\* query 2 into the text of query 1
ShareBatch(kind) ==
    [i \in 1..2 |->
        [query_id |-> i,
         original_query |-> 2 * i - 1,
         optimized_query |->
            CASE kind = "unchanged" /\ i = 1 -> 1
              [] kind = "same_rewrite" -> 2
              [] kind = "rewritten_into_other" /\ i = 2 -> 1
              [] OTHER -> 2 * i,
         optimizations_applied |-> 100 + i]]

ShareInit ==
    /\ AIStart("optimize_sql_query")
    /\ FanStart({ShareBatch(kind) :
                   kind \in {"unchanged", "same_rewrite",
                             "rewritten_into_other"}},
                Queries(2), {<<>>})
    /\ DryIdle /\ WfIdle /\ AggIdle

\* a batch during which time passes
ShareNext ==
    \/ Tick /\ UNCHANGED <<fanVars, dryVars, wfVars, aggVars>>
    \/ Submit /\ UNCHANGED <<aiVars, dryVars, wfVars, aggVars>>
    \/ \E i \in 1..2 : StartPair(i) /\ UNCHANGED <<aiVars, dryVars, wfVars, aggVars>>
    \/ \E i \in 1..2, a \in PoolAnswers :
          DryRunOriginal(i, a) /\ UNCHANGED <<aiVars, dryVars, wfVars, aggVars>>
    \/ \E i \in 1..2, a \in PoolAnswers :
          DryRunOptimized(i, a) /\ UNCHANGED <<aiVars, dryVars, wfVars, aggVars>>
    \/ \E i \in 1..2 : Drain(i) /\ UNCHANGED <<aiVars, dryVars, wfVars, aggVars>>
    \/ EndBatch /\ UNCHANGED <<aiVars, dryVars, wfVars, aggVars>>

\* batches of every size; the LLM changed every query (noop = 0) or returned
\* the first one as it was (noop = 1)
FanInit ==
    /\ AIStart("optimize_sql_query")
    /\ FanStart({Batch(n, noop) : n \in 1..MaxPairs, noop \in 0..1},
                Queries(MaxPairs), {<<>>, EarlierResults})
    /\ DryIdle /\ WfIdle /\ AggIdle

PoolInit ==
    /\ AIStart("optimize_sql_query")
    /\ FanStart({Batch(n, 0) : n \in 1..MaxPoolPairs}, Queries(MaxPoolPairs),
                {<<>>})
    /\ DryIdle /\ WfIdle /\ AggIdle

\* the LLM-client specifications leave the SQL workflow before its fan-out
FanIdle == FanStart({Batch(1, 0)}, Queries(1), {<<>>})

----------------------------------------------------------------------------
(* What a run shows the user where it ends or goes on: the st.error,       *)
(* st.warning, st.info and st.success calls of the branch, each with its   *)
(* level and whether str(e) of the exception caught is part of its text.   *)

\* Config.DEBUG if hasattr(Config, 'DEBUG') else False: the class has no
\* such attribute
DEBUG == FALSE

Message(level, exception) == [level |-> level, exception |-> exception]

\* the messages of the branch the run took last; the bullets of a
\* configuration error, one per message of Config.validate, stand as one
displayed(d, outcome_) ==
    CASE outcome_ = "configuration_error" ->
            <<Message("error", FALSE), Message("error", FALSE),
              Message("info", FALSE)>>
      [] outcome_ = "initialization_error" ->
            <<Message("error", FALSE), Message("error", TRUE),
              Message("info", FALSE)>>
      [] outcome_ = "generation_error" ->
            <<Message("error", TRUE), Message("info", FALSE)>>
      [] outcome_ = "analysis_error" ->
            <<Message("error", FALSE), Message("error", TRUE),
              Message("info", FALSE)>>
      [] outcome_ = "critical_error" ->
            <<Message("error", FALSE), Message("error", TRUE),
              Message("info", FALSE)>>
            \o (IF DEBUG THEN <<Message("exception", TRUE)>> ELSE <<>>)
      [] outcome_ = "no_suggestions" ->
            <<Message("warning", FALSE), Message("info", FALSE)>>
      [] outcome_ = "query_warning" ->
            <<Message("warning", TRUE)>>
      [] outcome_ = "no_queries_optimized_by_ai" ->
            <<Message("error", FALSE)>>
      [] outcome_ = "no_queries_optimized" ->
            <<Message("error", FALSE), Message("info", FALSE),
              Message("info", FALSE), Message("info", FALSE),
              Message("info", FALSE), Message("info", FALSE)>>
      [] outcome_ = "initialized" ->
            <<Message("info", FALSE)>>
      [] outcome_ = "dry_runs" ->
            <<Message("success", FALSE), Message("info", FALSE)>>
      [] outcome_ \in {"generated", "optimized", "complete"} ->
            <<Message("success", FALSE)>>
      [] OTHER -> <<>>

\* a run of a workflow that has its metadata and the answer of the LLM
AggInit ==
    /\ AIStart("optimize_sql_query") /\ FanIdle /\ DryIdle /\ WfIdle
    /\ \E d \in MetaDomains, md \in UNION {Metadata(x) : x \in MetaDomains} :
          /\ md \in Metadata(d)
          /\ \E a \in AnalysesOf(d), earlier \in {<<>>, EarlierRun} :
                agg = [NoAgg EXCEPT !.domain = d, !.metadata = md,
                                    !.analysis = a, !.pc = "ready",
                                    !.earlier = earlier, !.stored = earlier]
    /\ gen = NoGen

AggNext == Process /\ UNCHANGED <<aiVars, fanVars, dryVars, wfVars>>

\* a generator called with a count its slider lets through
GenInit ==
    /\ AIStart("optimize_sql_query") /\ FanIdle /\ DryIdle /\ WfIdle
    /\ agg = NoAgg
    /\ \E kind \in Generators, count \in min_queries..max_count :
          /\ count \in Counts(kind)
          /\ gen = [NoGen EXCEPT !.kind = kind, !.count = count,
                                 !.pc = "loop"]

GenNext ==
    \/ \E r \in SizeRanges, days_ago \in DaysAgo :
          \E u \in uniform(r[1], r[2]), c \in class_choices(days_ago) :
             /\ AppendBucket(1, u, days_ago, c)
             /\ UNCHANGED <<aiVars, fanVars, dryVars, wfVars, agg>>
    \/ AppendNumbered /\ UNCHANGED <<aiVars, fanVars, dryVars, wfVars, agg>>
    \/ ReturnList /\ UNCHANGED <<aiVars, fanVars, dryVars, wfVars, agg>>
    \/ \E full_table \in FullTables :
          /\ SampleQueries(full_table)
          /\ UNCHANGED <<aiVars, fanVars, dryVars, wfVars, agg>>

(* Calls of dry_run_query with time passing between them, over every        *)
(* provider answer.                                                        *)
DryNext ==
    \/ Tick /\ UNCHANGED <<fanVars, dryVars, wfVars, aggVars>>
    \/ \E query \in DOMAIN dry_cache, answer \in DryAnswers :
          DryRun(query, answer) /\ UNCHANGED <<aiVars, wfVars, aggVars>>

(* One uncached call of an operation, over every provider error text and   *)
(* every provider reply.                                                   *)
AINext ==
    \/ \E op \in Ops, arg \in 1..MaxArgs :
          Len(log) < 1 /\ CallUncached(op, arg) /\ UNCHANGED <<fanVars, dryVars, wfVars, aggVars>>
    \/ \E e \in ErrorTexts : ProviderRaises(e) /\ UNCHANGED <<fanVars, dryVars, wfVars, aggVars>>
    \/ \E text \in Replies(cur.op) :
          ProviderReturns(text) /\ UNCHANGED <<fanVars, dryVars, wfVars, aggVars>>
    \/ ParseAndValidate /\ UNCHANGED <<fanVars, dryVars, wfVars, aggVars>>

(* A session of up to MaxCalls calls of one operation (the four operations *)
(* are cached in separate stores) with time passing between the calls,     *)
(* over one provider error text of each retry behaviour and one reply of   *)
(* each outcome (a result per payload, a parse failure, a validation       *)
(* failure).                                                               *)
SessionErrors == {<<"rate limit">>, <<"authentication">>}

SessionReplies(op) ==
    {<<Json([shape |-> IF expects_list(op) THEN "list" ELSE "object",
             elems |-> <<ks>>, val |-> v])>> :
        ks \in {AllKeys(op), AllKeys(op) \ {required_keys(op)[1]}},
        v \in 1..MaxVal}
    \cup {<<Prose>>}

SessionNext ==
    \/ Tick /\ UNCHANGED <<fanVars, dryVars, wfVars, aggVars>>
    \/ \E arg \in 1..MaxArgs :
          Len(log) < MaxCalls /\ CallCached(cur.op, arg)
          /\ UNCHANGED <<fanVars, dryVars, wfVars, aggVars>>
    \/ \E arg \in 1..MaxArgs :
          Len(log) < MaxCalls /\ CallUncached(cur.op, arg)
          /\ UNCHANGED <<fanVars, dryVars, wfVars, aggVars>>
    \/ \E e \in SessionErrors : ProviderRaises(e) /\ UNCHANGED <<fanVars, dryVars, wfVars, aggVars>>
    \/ \E text \in SessionReplies(cur.op) :
          ProviderReturns(text) /\ UNCHANGED <<fanVars, dryVars, wfVars, aggVars>>
    \/ ParseAndValidate /\ UNCHANGED <<fanVars, dryVars, wfVars, aggVars>>

----------------------------------------------------------------------------
(* Specifications *)

vars == <<now, ai_cache, pc, cur, attempt, calls, waits, kinds, raised, caught,
          reply, response_text, last, log, optimized_queries, fpc, task, dry_cache,
          dry_calls, completed, results, warned, session_results, outcome,
          dry_log, cfg, wf, session, issued, report, agg, gen>>

AIInit == AIStart("optimize_sql_query") /\ FanIdle /\ DryIdle /\ WfIdle /\ AggIdle

SessionInit == (\E op \in Ops : AIStart(op)) /\ FanIdle /\ DryIdle /\ WfIdle /\ AggIdle

\* one uncached LLM-client call
Spec == AIInit /\ [][AINext]_vars

\* a sequence of dry_run_query calls
DrySpec == AIInit /\ [][DryNext]_vars

\* a fan-out batch in which two dry runs ask for the same text
ShareSpec == ShareInit /\ [][ShareNext]_vars

\* a fan-out batch whose dry runs report every pair of byte counts
SavingsSpec == SavingsInit /\ [][SavingsNext]_vars

\* runs of the domain workflows under a complete configuration
WfSpec == WfInit /\ [][WfNext]_vars

\* runs of the domain workflows under every configuration
ConfigSpec == ConfigInit /\ [][ConfigNext]_vars

\* the four generators on every count their sliders let through
GenSpec == GenInit /\ [][GenNext]_vars

\* the processing loops on every answer of the LLM client
AggSpec == AggInit /\ [][AggNext]_vars

\* SQL runs with every interleaving of the calls they make
OverlapSpec == WfInit /\ [][OverlapNext]_vars

\* SQL runs of one session inside and outside the cache window
WindowSpec == WfInit /\ [][WindowNext]_vars

\* a session of LLM-client calls
SessionSpec == SessionInit /\ [][SessionNext]_vars

\* a fan-out batch over every provider answer
FanSpec == FanInit /\ [][FanNext]_vars

\* a fan-out batch larger than the worker pool
PoolSpec == PoolInit /\ [][PoolNext]_vars

\* the same, with the threads and the provider making progress
PoolFairSpec == PoolInit /\ [][PoolNext]_vars /\ WF_vars(PoolNext)

----------------------------------------------------------------------------
(* Properties of the retry loop, under Spec *)

Retryable == {"rate_limit", "timeout"}

\* the backoff waits that precede attempt k + 1: 2^0, 2^1, ..., 2^(k-1)
Backoff(k) == [i \in 1..k |-> 2 ^ (i - 1)]

\* C1: when the first k provider calls (k = 1 or 2) fail with rate_limit- or
\* timeout-classified errors and call k+1 succeeds, exactly k+1 provider
\* calls were made, exactly k waits of 1s, then 2s, occurred, and the retry
\* loop returns the text of the successful reply.
C1_RetryThenSuccess ==
    (/\ pc = "parse"
     /\ Len(kinds) \in {1, 2}
     /\ \A i \in 1..Len(kinds) : kinds[i] \in Retryable)
    => /\ calls = Len(kinds) + 1
       /\ waits = Backoff(Len(kinds))
       /\ Len(kinds) = 2 => waits = <<1, 2>>
       /\ response_text = reply

C1_Witness ==
    /\ pc = "parse"
    /\ kinds = <<"rate_limit", "timeout">>
    /\ calls = 3
    /\ waits = <<1, 2>>
    /\ response_text # <<>>

\* C2: a provider call that fails with an authentication-classified error
\* is the last provider call: no retry and no backoff wait follows it (one
\* call and no wait at all when it is the first call), and the call raises
\* an error whose message contains "authentication".
C2_AuthenticationIsFatal ==
    \A i \in 1..Len(kinds) :
        kinds[i] = "authentication"
        => /\ i = Len(kinds)
           /\ pc = "idle"
           /\ calls = i
           /\ waits = Backoff(i - 1)
           /\ last.status = "error"
           /\ In("authentication", last.retry_error)
           /\ In("authentication", last.error)

C2_Witness ==
    /\ pc = "idle"
    /\ kinds = <<"authentication">>
    /\ calls = 1
    /\ waits = <<>>
    /\ raised = <<"API key">>
    /\ last.status = "error"

\* C3: the retry loop never makes more than max_retries (3) provider calls;
\* when every provider call fails with a retryable error it makes exactly
\* 3, waits 1s then 2s and not after the last failure, and raises an error
\* made of the classified user-facing message and the raw error text.
C3_RetriesExhausted ==
    /\ calls <= 3
    /\ (/\ pc = "idle"
        /\ calls > 0
        /\ Len(kinds) = calls
        /\ \A i \in 1..Len(kinds) : kinds[i] \in Retryable)
       => /\ calls = 3
          /\ waits = <<1, 2>>
          /\ last.status = "error"
          /\ last.retry_error =
                user_message(kinds[3], raised) \o <<":">> \o raised
          /\ raised # <<>>

C3_Witness ==
    /\ pc = "idle"
    /\ kinds = <<"timeout", "rate_limit", "rate_limit">>
    /\ calls = 3
    /\ waits = <<1, 2>>
    /\ last.status = "error"
    /\ raised = <<"Quota", "server error">>

----------------------------------------------------------------------------
(* Properties of the dry-run fan-out, under PoolSpec and FanSpec *)

Queued == {i \in DOMAIN task : task[i].st = "queued"}

Drained == {i \in DOMAIN task : task[i].st = "drained"}

\* pairs whose two dry runs were attempted and both reported success
BothSucceeded ==
    {i \in DOMAIN dry_calls :
        Len(dry_calls[i]) = 2 /\ dry_calls[i][1].ok /\ dry_calls[i][2].ok}

\* pairs whose dry run of the original query was attempted and failed
OriginalFailed ==
    {i \in DOMAIN dry_calls : Len(dry_calls[i]) >= 1 /\ ~dry_calls[i][1].ok}

ResultIds == {results[k].query_id : k \in 1..Len(results)}

\* C4: at every moment of the fan-out at most 5 pairs are in flight,
\* whatever the number N of submitted pairs; a pair that is still queued
\* while 5 are in flight waits.
C4_AtMostFiveInFlight == Cardinality(InFlight) <= 5

C4_Witness ==
    /\ N = 6
    /\ Cardinality(InFlight) = 5
    /\ Queued = {6}

\* C5: a pair whose dry run of the original query fails never has its
\* optimized query dry-run and is reported as failed (a warning, no result
\* record); the optimized query is dry-run only after the original's dry run
\* succeeded.  When exactly one of the N pairs fails on its original query
\* and the others succeed, the batch ends with N-1 result records.
C5_OriginalFailureStopsPair ==
    /\ \A i \in DOMAIN dry_calls :
          LET c == dry_calls[i]
          IN  /\ Len(c) <= 2
              /\ Len(c) >= 1 => c[1].side = "original"
              /\ Len(c) = 2 => c[2].side = "optimized" /\ c[1].ok
              /\ i \in OriginalFailed
                 => /\ Len(c) = 1
                    /\ task[i].st \in {"finished", "drained"}
                    /\ ~task[i].ret.success
                    /\ optimized_queries[i].query_id \notin ResultIds
                    /\ task[i].st = "drained"
                       => optimized_queries[i].query_id \in warned
    /\ (/\ fpc = "ended"
        /\ Cardinality(OriginalFailed) = 1
        /\ BothSucceeded = (1..N) \ OriginalFailed)
       => Len(results) = N - 1

C5_Witness ==
    /\ fpc = "ended"
    /\ N = 2
    /\ OriginalFailed = {1}
    /\ Len(dry_calls[1]) = 1
    /\ BothSucceeded = {2}
    /\ Len(results) = 1
    /\ warned = {1}

\* what the end of the batch does to the stored SQL results
C6_EndOfBatch ==
    (fpc = "draining" /\ fpc' = "ended")
    => IF results # <<>>
       THEN session_results' = results /\ outcome' = "complete"
       ELSE /\ session_results' = session_results
            /\ outcome' = "no_queries_optimized"

\* C6: a failing pair (failure record or exception) never keeps a sibling
\* from being processed: every pair of an ended batch had its dry runs
\* attempted, and the number of result records is the number of pairs whose
\* two dry runs both succeeded.  The batch replaces the stored SQL results
\* if and only if at least one pair succeeded; with zero successes it reports
\* total failure and leaves the stored results as they were.
C6_FailuresAreIsolated ==
    /\ [](/\ Len(results) = Cardinality(Drained \cap BothSucceeded)
          /\ fpc = "ended"
             => /\ Len(results) = Cardinality(BothSucceeded)
                /\ \A i \in 1..N : Len(dry_calls[i]) >= 1
                /\ \A i \in 1..N : i \in BothSucceeded \/ i \in FailedPairs)
    /\ [][C6_EndOfBatch]_vars

C6_Witness ==
    /\ fpc = "ended"
    /\ N = 2
    /\ FailedPairs = {1}
    /\ BothSucceeded = {2}
    /\ Len(results) = 1
    /\ session_results = results
    /\ session_results # EarlierResults

\* the other case of C6: no pair succeeded and the earlier results are kept
C6_WitnessTotalFailure ==
    /\ fpc = "ended"
    /\ N = 2
    /\ FailedPairs = {1, 2}
    /\ results = <<>>
    /\ outcome = "no_queries_optimized"
    /\ session_results = EarlierResults

\* one iteration of the drain loop, as seen on the progress counter
C7_CounterStep ==
    /\ Drained \subseteq Drained'
    /\ IF Drained' = Drained
       THEN completed' = completed
       ELSE /\ Cardinality(Drained') = Cardinality(Drained) + 1
            /\ completed' = completed + 1

\* C7: a submitted batch always runs to completion (each dry-run call
\* returning): every submitted pair is drained, once; the progress counter
\* grows by exactly one per drained pair, succeeded or failed, never exceeds
\* N and equals N when the batch ends; a failed pair cancels no other pair.
C7_BatchRunsToCompletion ==
    /\ [](/\ completed = Cardinality(Drained)
          /\ completed = Len(results) + Cardinality(warned)
          /\ completed <= N
          /\ fpc = "ended" => completed = N /\ Drained = 1..N)
    /\ [][C7_CounterStep]_vars
    /\ (fpc = "draining") ~> (fpc = "ended")

C7_Witness ==
    /\ fpc = "ended"
    /\ N = 6
    /\ completed = 6
    /\ FailedPairs = {3}
    /\ Len(results) = 5
    /\ warned = {3}

\* the figures the dry run of a query text reported
Figures(query) == dry_cache[query].value

\* record r is the record of submitted pair i
RecordOfPair(r, i) ==
    LET q == optimized_queries[i]
    IN  /\ r.query_id = q.query_id
        /\ r.original_query = q.original_query
        /\ r.optimized_query = q.optimized_query
        /\ r.optimizations_applied = q.optimizations_applied
        /\ dry_cache[q.original_query].valid
        /\ dry_cache[q.optimized_query].valid
        /\ r.bytes_before = Figures(q.original_query).total_bytes_processed
        /\ r.cost_before_usd = Figures(q.original_query).estimated_cost_usd
        /\ r.bytes_after = Figures(q.optimized_query).total_bytes_processed
        /\ r.cost_after_usd = Figures(q.optimized_query).estimated_cost_usd

\* the result list only grows, at its end, by the record of the drained pair
C8_AppendOnly ==
    \/ results' = results
    \/ \E i \in 1..N :
          /\ task[i].st = "finished" /\ task'[i].st = "drained"
          /\ Len(results') = Len(results) + 1
          /\ SubSeq(results', 1, Len(results)) = results
          /\ RecordOfPair(results'[Len(results')], i)

\* C8: whatever the completion order, every result record carries the id,
\* the two query texts and the labels of one submitted pair, the bytes and
\* cost the dry run of that pair's original query reported as its "before"
\* figures and those of its optimized query as its "after" figures; no pair
\* has two records; the list is in the order the pairs were drained.
C8_RecordsAreConsistent ==
    /\ [](/\ \A k \in 1..Len(results) :
                \E i \in Drained : /\ i \in BothSucceeded
                                   /\ RecordOfPair(results[k], i)
          /\ \A j, k \in 1..Len(results) :
                results[j].query_id = results[k].query_id => j = k)
    /\ [][C8_AppendOnly]_vars

\* the pair submitted second is recorded first, with figures of its own
C8_Witness ==
    /\ fpc = "ended"
    /\ Len(results) = 2
    /\ results[1].query_id = 2
    /\ results[2].query_id = 1
    /\ results[1].bytes_before # results[2].bytes_before
    /\ results[1].bytes_after # results[2].bytes_after

----------------------------------------------------------------------------
(* Properties of the LLM-client cache, under SessionSpec *)

SameArgs(a, b) == a.op = b.op /\ a.arg = b.arg

\* the statement of C9 without a condition on how the first call ended: two
\* calls with identical arguments, the second starting less than ttl after
\* the first, issue one provider call between them and return the same result
C9_OneProviderCallPerPair ==
    \A i, j \in 1..Len(log) :
        (/\ i < j
         /\ SameArgs(log[i], log[j])
         /\ log[j].t0 - log[i].t0 < ttl)
        => /\ log[i].n + log[j].n = 1
           /\ log[i].ok /\ log[j].ok
           /\ log[j].result = log[i].result

\* C9 (amended): when a call of an LLM-client operation succeeds, a call
\* with identical arguments that starts less than ttl (3600 s) after it
\* returned issues no provider call and returns the same result; the first
\* call itself issues between 1 and max_retries provider calls (more than
\* one when it retried).
C9_SecondCallServedFromCache ==
    \A i, j \in 1..Len(log) :
        (/\ i < j
         /\ SameArgs(log[i], log[j])
         /\ log[i].ok
         /\ log[i].n >= 1
         /\ log[j].t0 - log[i].t1 < ttl)
        => /\ log[i].n <= max_retries
           /\ log[j].n = 0
           /\ log[j].ok
           /\ log[j].result = log[i].result

\* the first call retried once, the second came half an hour later
C9_Witness ==
    /\ Len(log) = 2
    /\ SameArgs(log[1], log[2])
    /\ log[1].ok
    /\ log[1].n = 2
    /\ log[2].t0 - log[1].t1 = TickStep
    /\ log[2].n = 0
    /\ log[2].result = log[1].result
    /\ log[2].result # NoDoc

\* the call that follows log[i] with the same arguments
NextSameArgs(i, j) ==
    /\ i < j
    /\ SameArgs(log[i], log[j])
    /\ \A k \in (i + 1)..(j - 1) : ~SameArgs(log[i], log[k])

\* C10: only successful calls are cached.  A call that fails (provider error
\* after the retries, parse failure or schema-validation failure) leaves no
\* live cache entry for its arguments, the next call with the same arguments
\* contacts the provider again, and every cache entry holds the result of a
\* successful call that contacted the provider.
C10_FailuresAreNotCached ==
    /\ (pc = "idle" /\ last.status = "error")
       => ~cache_hit(ai_cache[<<cur.op, cur.arg>>], now)
    /\ \A i, j \in 1..Len(log) :
          (~log[i].ok /\ NextSameArgs(i, j)) => log[j].n >= 1
    /\ \A key \in Keys :
          ai_cache[key].valid
          => \E i \in 1..Len(log) :
                /\ <<log[i].op, log[i].arg>> = key
                /\ log[i].ok
                /\ log[i].n >= 1
                /\ log[i].t1 = ai_cache[key].at
                /\ log[i].result = ai_cache[key].value

\* a call that failed after its retries, then a call with the same arguments
C10_Witness ==
    /\ Len(log) = 2
    /\ SameArgs(log[1], log[2])
    /\ ~log[1].ok
    /\ log[1].n = max_retries
    /\ log[2].t0 = log[1].t1
    /\ log[2].n = 1
    /\ log[2].ok

----------------------------------------------------------------------------
(* Properties of dry_run_query, under DrySpec *)

\* entries of the log whose call ran the body with the provider answering
\* or failing: not served from the cache, no exception from outside the try
Uncached(e) == e.calls = 1

\* C11: dry_run_query does not raise when the provider call fails: it
\* returns success = false with zero bytes, zero cost and the error text; on
\* success it returns success = true and no error (None, the empty text
\* here).  An uncached invocation makes exactly one provider call: a failure
\* is not retried.
C11_DryRunNeverRaises ==
    \A k \in 1..Len(dry_log) :
        LET e == dry_log[k]
        IN  /\ e.calls \in {0, 1}
            /\ (Uncached(e) /\ e.answer.kind = "raises")
               => /\ ~e.raised
                  /\ e.value = [success |-> FALSE, total_bytes_processed |-> 0,
                                estimated_cost_usd |-> 0,
                                error |-> e.answer.text]
            /\ (Uncached(e) /\ e.answer.kind = "bytes")
               => /\ ~e.raised
                  /\ e.value.success
                  /\ e.value.total_bytes_processed = e.answer.bytes
                  /\ e.value.error = <<>>
            /\ (~e.raised /\ e.calls = 0)
               => /\ k > 1
                  /\ \E j \in 1..(k - 1) : /\ dry_log[j].query = e.query
                                           /\ Uncached(dry_log[j])

C11_Witness ==
    /\ Len(dry_log) = 1
    /\ dry_log[1].answer.kind = "raises"
    /\ dry_log[1].calls = 1
    /\ ~dry_log[1].raised
    /\ ~dry_log[1].value.success
    /\ dry_log[1].value.error = <<"Syntax error">>

\* the dry runs of a batch: <<pair, position in the pair's history>>
BatchCalls ==
    {<<i, k>> : i \in DOMAIN dry_calls, k \in 1..2} \cap
    {c \in (DOMAIN dry_calls) \X (1..2) : c[2] <= Len(dry_calls[c[1]])}

CallOf(c) == dry_calls[c[1]][c[2]]

\* C12: when a dry_run_query call contacted the provider and returned, a
\* call with the same query text made less than ttl (one hour) after it
\* makes no provider call and returns the same estimate, whether the two
\* calls come from one pair or from two pairs of a batch; so two such calls
\* contact the provider exactly once.
C12_SameTextIsServedFromCache ==
    \A x, y \in BatchCalls :
        (/\ x # y
         /\ CallOf(x).query = CallOf(y).query
         /\ CallOf(x).calls = 1
         /\ ~CallOf(y).raised
         /\ CallOf(x).t <= CallOf(y).t
         /\ CallOf(y).t < CallOf(x).t + ttl)
        => /\ CallOf(y).calls = 0
           /\ CallOf(y).value = CallOf(x).value
           /\ CallOf(x).calls + CallOf(y).calls = 1

\* the two pairs of a batch asked for one text half an hour apart
C12_Witness ==
    \E x, y \in BatchCalls :
        /\ x[1] # y[1]
        /\ CallOf(x).query = CallOf(y).query
        /\ CallOf(x).calls = 1
        /\ CallOf(x).value.success
        /\ CallOf(y).t = CallOf(x).t + TickStep
        /\ CallOf(y).calls = 0
        /\ CallOf(y).value = CallOf(x).value

\* C13: every successful dry run reports estimated_cost_usd = bytes_processed
\* / 2^40 * Config.BIGQUERY_COST_PER_TB (costs are in units of 2^-40 USD).
C13_CostUsesConfiguredRate ==
    \A k \in 1..Len(dry_log) :
        dry_log[k].value.success
        => dry_log[k].value.estimated_cost_usd =
              dry_log[k].value.total_bytes_processed * BIGQUERY_COST_PER_TB

\* what dry_run_query computes: the rate is the literal 5.0
C13_CostUsesLiteralRate ==
    \A k \in 1..Len(dry_log) :
        dry_log[k].value.success
        => dry_log[k].value.estimated_cost_usd =
              dry_log[k].value.total_bytes_processed * 5

\* a dry run of one byte, costed at 5 and not at 50 per TB
C13_Witness ==
    /\ Len(dry_log) >= 1
    /\ dry_log[1].value.success
    /\ dry_log[1].value.total_bytes_processed = 1
    /\ dry_log[1].value.estimated_cost_usd = 5
    /\ dry_log[1].value.estimated_cost_usd # BIGQUERY_COST_PER_TB

----------------------------------------------------------------------------
(* Properties of the SQL result records, under SavingsSpec *)

\* the fraction f equals p / q (q > 0)
FractionIs(f, p, q) == f.den > 0 /\ f.num * q = p * f.den

\* C14: every SQL result has savings_percent = (bytes_before - bytes_after)
\* / bytes_before * 100 when bytes_before > 0 and 0 when bytes_before = 0;
\* when bytes_after > bytes_before it is the negative value of the formula,
\* not 0.
C14_SavingsPercent ==
    \A k \in 1..Len(results) :
        LET r == results[k]
        IN  /\ r.bytes_before > 0
               => FractionIs(r.savings_percent,
                             (r.bytes_before - r.bytes_after) * 100,
                             r.bytes_before)
            /\ r.bytes_before = 0 => FractionIs(r.savings_percent, 0, 1)
            /\ (r.bytes_before > 0 /\ r.bytes_after > r.bytes_before)
               => r.savings_percent.num < 0

\* an "optimized" query that reads twice the bytes: savings of -100 percent
C14_Witness ==
    \E k \in 1..Len(results) :
        /\ results[k].bytes_before = 1
        /\ results[k].bytes_after = 2
        /\ FractionIs(results[k].savings_percent, -100, 1)

----------------------------------------------------------------------------
(* Properties of the reply parsing, under Spec *)

RECURSIVE TotalChars(_)
TotalChars(text) ==
    IF text = <<>> THEN 0 ELSE chunk_len(Head(text)) + TotalChars(Tail(text))

RECURSIVE ShownTotal(_)
ShownTotal(shown) ==
    IF shown = <<>> THEN 0 ELSE Head(shown).chars + ShownTotal(Tail(shown))

\* shown is the first n characters of text
FirstChars(shown, text, n) ==
    /\ Len(shown) <= Len(text)
    /\ \A i \in 1..Len(shown) :
          /\ shown[i].chunk = text[i]
          /\ shown[i].chars >= 1
          /\ shown[i].chars <= chunk_len(text[i])
          /\ i < Len(shown) => shown[i].chars = chunk_len(text[i])
    /\ ShownTotal(shown) = IF TotalChars(text) < n THEN TotalChars(text) ELSE n

\* the reply, without its code fence, is not one JSON document
NotJson(text) == ~json_loads_ok(strip_fences(text))

\* C15: when the provider's reply, after stripping a leading and a trailing
\* code fence, is not valid JSON, the operation fails at once, with no further
\* provider call (the failure is not retried), and the error text holds the
\* first 200 characters of the stripped reply.
C15_ParseFailureIsTerminal ==
    [][(pc = "parse" /\ NotJson(reply))
       => /\ pc' = "idle"
          /\ calls' = calls
          /\ attempt' = attempt
          /\ last'.status = "error"
          /\ last'.error = <<failure_prefix(cur.op), "Failed to", "parse",
                             "JSON", "response:">>
          /\ FirstChars(last'.shown, strip_fences(reply), ShownChars)
          /\ log' = Append(log, LogEntry(FALSE, NoDoc, now, calls))
          /\ ai_cache' = ai_cache]_vars

\* a reply of prose around a fenced document, longer than 200 characters,
\* has failed to parse after one provider call and is shown cut
C15_Witness ==
    /\ pc = "idle"
    /\ calls = 1
    /\ \E d \in Docs(cur.op) : reply = <<Prose, Ws, FenceJson, Json(d), Fence>>
    /\ last.status = "error"
    /\ Len(last.shown) = 4
    /\ last.shown[4].chars = ShownChars - ProseChars - 8
    /\ TotalChars(strip_fences(reply)) > ShownChars

----------------------------------------------------------------------------
(* Properties of the schema validation, under Spec *)

\* the JSON document of a reply that parses
DocOf(text) == strip_fences(text)[1].doc

\* key k is absent from the top level of document d, as operation op reads
\* it: from the object, or from some element of the list
KeyAbsent(op, d, k) ==
    IF expects_list(op)
    THEN d.shape = "list" /\ \E i \in 1..Len(d.elems) : k \notin d.elems[i]
    ELSE d.shape = "list" \/ k \notin d.elems[1]

\* document d has the shape operation op expects, with every required key
WellShaped(op, d) ==
    /\ d.shape = (IF expects_list(op) THEN "list" ELSE "object")
    /\ \A i \in 1..Len(required_keys(op)) :
          ~KeyAbsent(op, d, required_keys(op)[i])

\* the error text ends with the name of a required key absent from d
NamesMissingKey(op, d, error) ==
    /\ Len(error) = 3
    /\ error[1] = failure_prefix(op)
    /\ error[3] \in AllKeys(op)
    /\ KeyAbsent(op, d, error[3])

\* the parsed reply is taken to validation
ValidationStep == pc = "parse" /\ json_loads_ok(strip_fences(reply))

\* the call returns a result only if the document is well shaped, and a
\* document that is not makes the call fail with nothing returned or stored
ReturnsOnlyWellShaped ==
    /\ (ValidationStep /\ last'.status = "ok")
       => WellShaped(cur.op, DocOf(reply)) /\ last'.result = DocOf(reply)
    /\ (ValidationStep /\ ~WellShaped(cur.op, DocOf(reply)))
       => /\ pc' = "idle"
          /\ last'.status = "error"
          /\ last'.result = NoDoc
          /\ ai_cache' = ai_cache
          /\ log' = Append(log, LogEntry(FALSE, NoDoc, now, calls))

----------------------------------------------------------------------------
(* Properties of the domain workflows, under WfSpec *)

\* no run is in progress
BetweenRuns == wf.pc = "idle"

\* the stored results of domain d were built from the stored metadata
SameRun(d) ==
    \A r \in session[d].results :
        /\ r.name \in session[d].metadata.names
        /\ r.run = session[d].metadata.run

\* C17: in the storage, schedule and ML workflows, after any sequence of
\* runs, each succeeding or failing at any step, the stored results and the
\* stored metadata come from the same run: every stored result's name is
\* that of a record of the stored metadata, and results of an earlier run
\* are never left stored next to metadata of a later run.
C17_ResultsAndMetadataOfOneRun ==
    BetweenRuns => \A d \in MetaDomains : SameRun(d)

\* what does hold: a storage or ML run that ends with "complete" leaves
\* results and metadata of that run
C17_CompleteRunIsConsistent ==
    (BetweenRuns /\ report = "complete" /\ wf.domain \in {"storage", "ml"})
    => SameRun(wf.domain)

\* a second storage run has stored its metadata and failed in the analysis,
\* next to the results of the first run
C17_Witness ==
    /\ BetweenRuns
    /\ wf.domain = "storage"
    /\ wf.run = 2
    /\ wf.failed = "analyze"
    /\ session["storage"].metadata.run = 2
    /\ session["storage"].results # {}
    /\ \A r \in session["storage"].results : r.run = 1
    /\ \E r \in session["storage"].results :
          r.name \notin session["storage"].metadata.names

\* what each failure reports
ReportOf(step) ==
    CASE step = "init" -> "initialization_error"
      [] step = "generate" -> "generation_error"
      [] step = "analyze" -> "analysis_error"
      [] step = "optimize" -> "no_queries_optimized_by_ai"

\* the calls issued by a run that failed at this step: none of a later step
IssuedUpTo(step) ==
    /\ issued.dry = 0
    /\ step = "init" => issued.generator = 0 /\ issued.llm = 0
    /\ step = "generate" => issued.generator = 1 /\ issued.llm = 0
    /\ step = "analyze" => issued.generator = 1 /\ issued.llm = 1
    /\ step = "optimize" => issued.generator = 1 /\ issued.llm = wf.n

ResultsUnchanged ==
    /\ session_results' = session_results
    /\ \A d \in MetaDomains : session'[d].results = session[d].results

\* the run stopped at this step, reported it and issued nothing further
StoppedAt(step) ==
    wf.failed = step
    => /\ wf.pc = "idle"
       /\ report = ReportOf(step)
       /\ IssuedUpTo(step)

\* C18 as stated: in each domain workflow, when service initialization, data
\* generation or the LLM analysis step fails, the failure is reported and no
\* later step is attempted (no further generator, LLM or dry-run call is
\* issued), and the results stored by earlier runs are left unchanged. Read
\* for the SQL workflow with its LLM step failing when a call of
\* optimize_sql_query fails.
C18_FailedStepStopsTheRun ==
    /\ [](/\ StoppedAt("init") /\ StoppedAt("generate") /\ StoppedAt("analyze")
          /\ wf.llm_failed_at > 0
             => /\ wf.pc = "idle"
                /\ issued.llm = wf.llm_failed_at
                /\ issued.dry = 0)
    /\ [][(wf'.failed \in {"init", "generate", "analyze"}
           \/ wf'.llm_failed_at > 0) => ResultsUnchanged]_vars

\* C18: in each domain workflow, when service initialization or data
\* generation fails, or the LLM step of the storage, schedule or ML workflow
\* fails, the failure is reported and no later step is attempted (no further
\* generator, LLM or dry-run call is issued), and the results stored by
\* earlier runs are left unchanged. In the SQL workflow a failed LLM call
\* skips its query only: every generated query is still sent to the LLM, and
\* the run stops before the dry runs, with the stored results unchanged,
\* only when no query was optimized.
C18_FailedStepStopsTheRunExceptSqlQueries ==
    /\ [](/\ StoppedAt("init") /\ StoppedAt("generate") /\ StoppedAt("analyze")
          /\ StoppedAt("optimize")
          /\ wf.failed = "optimize" => Len(wf.acc) = 0
          /\ (wf.domain = "sql" /\ wf.pc = "fanout")
             => /\ issued.llm = wf.n
                /\ optimized_queries # <<>>
                /\ Len(optimized_queries) <= wf.n)
    /\ [][wf'.failed \in {"init", "generate", "analyze", "optimize"}
          => ResultsUnchanged]_vars

\* a second ML run has failed in the generation, with the results of the
\* first run still stored and no LLM call issued
C18_Witness ==
    /\ BetweenRuns
    /\ wf.domain = "ml"
    /\ wf.run = 2
    /\ wf.failed = "generate"
    /\ report = "generation_error"
    /\ issued.llm = 0
    /\ session["ml"].results # {}
    /\ \A r \in session["ml"].results : r.run = 1

\* the LLM call for the first query failed; the second query was sent to
\* the LLM and then to the dry run
C18_WitnessSkippedQuery ==
    /\ wf.domain = "sql"
    /\ wf.llm_failed_at = 1
    /\ issued.llm = 2
    /\ issued.dry > 0
    /\ optimized_queries = <<optimized_pair(2)>>

----------------------------------------------------------------------------
(* Properties of the configuration, under ConfigSpec *)

\* C19: when Config.validate() returns a non-empty error list, every domain
\* workflow stops before constructing any service: no LLM call and no
\* dry-run call is ever issued, no data is generated, and the session state
\* is unchanged.
C19_InvalidConfigurationStopsEveryRun ==
    /\ [](Config_validate(cfg) # <<>>
          => /\ wf.pc = "idle"
             /\ wf.ai = NoService
             /\ issued = NoIssued
             /\ wf.run > 0 => (wf.failed = "config"
                               /\ report = "configuration_error"))
    /\ [][Config_validate(cfg) # <<>>
          => /\ session' = session
             /\ session_results' = session_results
             /\ ai_cache' = ai_cache
             /\ dry_cache' = dry_cache]_vars

\* the ML workflow was started with the provider written "Gemini", which the
\* LLM client would accept, and stopped at the validation
C19_Witness ==
    /\ cfg.AI_PROVIDER = "Gemini"
    /\ ~falsy(cfg.BIGQUERY_PROJECT_ID)
    /\ ~falsy(cfg.GEMINI_API_KEY)
    /\ wf.domain = "ml"
    /\ wf.run = 1
    /\ wf.failed = "config"
    /\ issued = NoIssued

\* a setting is absent: not set, or set to the empty text
Absent(value) == value = Unset \/ value = ""

SelectedKeyAbsent ==
    \/ cfg.AI_PROVIDER = "gemini" /\ Absent(cfg.GEMINI_API_KEY)
    \/ cfg.AI_PROVIDER = "openai" /\ Absent(cfg.OPENAI_API_KEY)

\* C20: Config.validate() returns a non-empty list of messages if and only
\* if the project id is absent, or the selected provider's API key is absent,
\* or the provider selector is not exactly "gemini" or "openai"; whenever it
\* returns an empty list, constructing AIOptimizerService with the configured
\* provider and the key chosen by the workflows does not fail for an
\* unsupported provider and receives a non-empty key.
C20_ValidateIffIncomplete ==
    /\ Config_validate(cfg) # <<>>
       <=> \/ Absent(cfg.BIGQUERY_PROJECT_ID)
           \/ SelectedKeyAbsent
           \/ cfg.AI_PROVIDER \notin {"gemini", "openai"}
    /\ Config_validate(cfg) = <<>>
       => LET ai == AIOptimizerService_init(api_key_chosen(cfg),
                                            cfg.AI_PROVIDER)
          IN  /\ ~ai.raised
              /\ ~Absent(ai.api_key)
              /\ wf.pc \notin {"idle", "init"} => wf.ai = ai
    /\ wf.ai # NoService
       => /\ ~wf.ai.raised
          /\ ~Absent(wf.ai.api_key)
          /\ wf.ai.provider = cfg.AI_PROVIDER

\* the LLM client was constructed for "openai" with the OpenAI key, the
\* Gemini key being unset
C20_Witness ==
    /\ cfg.AI_PROVIDER = "openai"
    /\ cfg.GEMINI_API_KEY = Unset
    /\ Config_validate(cfg) = <<>>
    /\ wf.pc = "generate"
    /\ wf.ai = [raised |-> FALSE, api_key |-> "key", provider |-> "openai"]

----------------------------------------------------------------------------
(* More properties of the retry loop, under Spec *)

NotRetried == {"unknown", "invalid_response"}

\* C29: a provider failure classified unknown or invalid_response is never
\* retried: the loop makes no further provider call after it, does not wait,
\* and raises; when it is the first failure, exactly one provider call was
\* made and nothing was waited. The only kinds that are ever followed by
\* another provider call are rate_limit and timeout.
C29_UnknownIsNeverRetried ==
    /\ \A i \in 1..Len(kinds) :
          kinds[i] \in NotRetried
          => /\ i = Len(kinds)
             /\ pc = "idle"
             /\ calls = i
             /\ waits = Backoff(i - 1)
             /\ i = 1 => (calls = 1 /\ waits = <<>>)
             /\ last.status = "error"
             /\ last.retry_error = user_message(kinds[i], raised) \o <<":">>
                                   \o raised
    /\ \A i \in 1..Len(kinds) :
          (calls > i \/ Len(waits) >= i) => kinds[i] \in Retryable

\* the one provider call failed with a text that holds no marker: one call,
\* no wait, the error raised
C29_Witness ==
    /\ pc = "idle"
    /\ kinds = <<"unknown">>
    /\ raised = <<"server error">>
    /\ calls = 1
    /\ waits = <<>>
    /\ last.status = "error"

\* the same for a provider error that speaks of JSON
C29_WitnessInvalidResponse ==
    /\ pc = "idle"
    /\ kinds = <<"rate_limit", "invalid_response">>
    /\ raised = <<"JSON">>
    /\ calls = 2
    /\ waits = <<1>>

\* the kinds in the order of precedence
KindsInOrder == <<"rate_limit", "authentication", "timeout", "invalid_response">>

\* the first kind, in the order of precedence, among those found; unknown
\* when none was found
KindByPrecedence(found) ==
    IF found = {}
    THEN "unknown"
    ELSE KindsInOrder[CHOOSE j \in 1..4 :
                         /\ KindsInOrder[j] \in found
                         /\ \A l \in 1..(j - 1) : KindsInOrder[l] \notin found]

\* C28: handle_ai_error gives every error one kind by the fixed precedence
\* rate_limit > authentication > timeout > invalid_response > unknown: an
\* error whose text holds both a rate-limit marker ("rate limit", "quota")
\* and an authentication marker ("api key", "authentication") is classified
\* rate_limit and is therefore retried while retry budget remains.
C28_RateLimitBeforeAuthentication ==
    caught.any
    => /\ kinds # <<>>
       /\ kinds[Len(kinds)] = KindByPrecedence(caught.found)
       /\ {"rate_limit", "authentication"} \subseteq caught.found
          => /\ kinds[Len(kinds)] = "rate_limit"
             /\ Len(kinds) < max_retries
                => /\ pc = "retry"
                   /\ attempt = Len(kinds)
                   /\ waits = Backoff(Len(kinds))
                   /\ last.status = "none"

\* the second provider call failed like the first with a text that holds a
\* rate-limit marker and an authentication marker, and a third call is about
\* to be made
C28_Witness ==
    /\ caught = [any |-> TRUE, found |-> {"rate_limit", "authentication"}]
    /\ kinds = <<"rate_limit", "rate_limit">>
    /\ pc = "retry"
    /\ attempt = 2
    /\ calls = 2
    /\ waits = <<1, 2>>

----------------------------------------------------------------------------
(* Failure records in the dry-run cache, under WindowSpec *)

\* the pair whose work unit makes a dry run in this step
DryRunsIn(i) ==
    /\ i \in DOMAIN task /\ i \in DOMAIN task'
    /\ task[i].st \in {"original", "optimized"}
    /\ task'[i].st # task[i].st

\* the text that work unit hands to dry_run_query
TextOf(i) ==
    IF task[i].st = "original" THEN optimized_queries[i].original_query
    ELSE optimized_queries[i].optimized_query

\* the cache holds a failure record of that text, stored less than ttl ago
FailureInWindow(query) ==
    /\ dry_cache[query].valid
    /\ ~dry_cache[query].value.success
    /\ now - dry_cache[query].at < ttl

ThisCall(i) == dry_calls'[i][Len(dry_calls'[i])]

\* C30: a failure record that dry_run_query returns is stored like a
\* success; while it is less than ttl old, every dry run of the same text
\* returns that record without a provider call, and the pair holding the
\* text fails again, in this run and in every later one
C30_FailureRecordsAreCached ==
    [][\A i \in 1..MaxWfQueries :
          DryRunsIn(i)
          => /\ FailureInWindow(TextOf(i))
                => /\ ThisCall(i).calls = 0
                   /\ ~ThisCall(i).raised
                   /\ ThisCall(i).value = dry_cache[TextOf(i)].value
                   /\ dry_cache' = dry_cache
                   /\ task'[i].st = "finished"
                   /\ ~task'[i].ret.success
             /\ (ThisCall(i).calls = 1 /\ ~ThisCall(i).value.success)
                => dry_cache'[TextOf(i)] =
                      [valid |-> TRUE, value |-> ThisCall(i).value,
                       at |-> now]]_vars

\* in a second run, after time has passed, a pair has failed on the record
\* an earlier run stored, without a provider call
C30_Witness ==
    /\ wf.run = 2 /\ wf.pc = "fanout"
    /\ 1 \in DOMAIN task /\ task[1].st = "finished"
    /\ ~task[1].ret.success
    /\ Len(dry_calls[1]) = 1
    /\ dry_calls[1][1].calls = 0
    /\ ~dry_calls[1][1].value.success
    /\ dry_cache[1].valid /\ dry_cache[1].at = 0 /\ now = TickStep

----------------------------------------------------------------------------
(* The processing loops, under AggSpec *)

Finished == agg.pc = "done"

InMetadata(name) == \E j \in 1..Len(agg.metadata) : agg.metadata[j] = name

\* the suggestions, by position, that name a metadata record
Matching(suggestions) ==
    {k \in 1..Len(suggestions) : InMetadata(suggestions[k])}

OfType(types) == SelectSeq(agg.results, LAMBDA r : r.type \in types)

\* C21: in the storage and ML loops and in the frequency-adjustment loop of
\* the schedule workflow there are as many result records as suggestions
\* whose name is the name of a metadata record: every record carries the
\* name of a suggestion and of the metadata record it was built from, so a
\* suggestion without metadata and a metadata record without suggestion
\* yield nothing
C21_OneRecordPerMatchedSuggestion ==
    Finished
    => LET recs == OfType({"storage", "ml", "reduce_frequency"})
           suggestions == agg.analysis.suggestions
       IN  /\ Len(recs) = Cardinality(Matching(suggestions))
           /\ \A r \in 1..Len(recs) :
                 /\ \E k \in Matching(suggestions) :
                       recs[r].name = <<suggestions[k]>>
                 /\ Len(recs[r].from) = 1
                 /\ recs[r].from[1] \in 1..Len(agg.metadata)
                 /\ <<agg.metadata[recs[r].from[1]]>> = recs[r].name
           /\ \A j \in 1..Len(agg.metadata) :
                 (\A k \in 1..Len(suggestions) :
                     suggestions[k] # agg.metadata[j])
                 => \A r \in 1..Len(recs) : recs[r].name # <<agg.metadata[j]>>

\* three metadata records and two suggestions that name two of them
C21_Witness ==
    /\ Finished /\ agg.domain = "storage"
    /\ agg.metadata = <<1, 2, 3>>
    /\ agg.analysis.suggestions = <<3, 1>>
    /\ Len(agg.results) = 2

\* a suggestion that names no metadata record is dropped
C21_WitnessDropped ==
    /\ Finished /\ agg.domain = "ml"
    /\ agg.metadata = <<1, 2>>
    /\ agg.analysis.suggestions = <<MaxMeta + 1, 2>>
    /\ Len(agg.results) = 1

\* the merge opportunities none of whose query names is a metadata name
UnmatchedMerges ==
    {k \in 1..Len(agg.analysis.merges) :
        \A q \in 1..Len(agg.analysis.merges[k]) :
            ~InMetadata(agg.analysis.merges[k][q])}

\* C27: in the schedule loops a merge opportunity whose query names match
\* no schedule record produces no result record
C27_UnmatchedMergeIsDropped ==
    (Finished /\ agg.domain = "schedule"
     /\ UnmatchedMerges = DOMAIN agg.analysis.merges)
    => OfType({"merge"}) = <<>>

\* what the merge loop does: one record for every merge opportunity of two
\* or more query names, whether or not the names are in the metadata
C27_MergeRecordForTwoNames ==
    (Finished /\ agg.domain = "schedule")
    => LET big == {k \in 1..Len(agg.analysis.merges) :
                      Len(agg.analysis.merges[k]) >= 2}
       IN  /\ Len(OfType({"merge"})) = Cardinality(big)
           /\ \A r \in 1..Len(OfType({"merge"})) :
                 \E k \in big :
                    OfType({"merge"})[r].name
                        = SubSeq(agg.analysis.merges[k], 1, 2)

\* a merge of two names that are in no schedule record has its record
C27_Witness ==
    /\ Finished /\ agg.domain = "schedule"
    /\ agg.analysis.merges = <<<<MaxMeta + 1, MaxMeta + 1>>>>
    /\ agg.results = <<[type |-> "merge",
                        name |-> <<MaxMeta + 1, MaxMeta + 1>>,
                        from |-> <<>>]>>

\* C22: when the loops of a storage, schedule or ML run leave no record,
\* the run ends with the outcome "no suggestions", shown as a warning and
\* an information message with no error message, and the results key of
\* the session is what it was when the run began
C22_EmptyResultIsNotAnError ==
    (Finished /\ agg.results = <<>>)
    => /\ agg.outcome = "no_suggestions"
       /\ {displayed(agg.domain, agg.outcome)[k].level :
              k \in DOMAIN displayed(agg.domain, agg.outcome)}
          = {"warning", "info"}
       /\ agg.stored = agg.earlier

\* suggestions that name no metadata record, in a session that holds the
\* results of an earlier run
C22_Witness ==
    /\ Finished /\ agg.domain = "storage"
    /\ agg.analysis.suggestions = <<MaxMeta + 1>>
    /\ agg.results = <<>>
    /\ agg.outcome = "no_suggestions"
    /\ agg.earlier = EarlierRun /\ agg.stored = EarlierRun

----------------------------------------------------------------------------
(* What the error paths show, under WfSpec *)

ErrorOutcomes ==
    {"configuration_error", "initialization_error", "generation_error",
     "analysis_error", "critical_error", "no_queries_optimized_by_ai",
     "no_queries_optimized"}

EndedInError == wf.pc = "idle" /\ report \in ErrorOutcomes

Levels == {displayed(wf.domain, report)[k].level :
             k \in DOMAIN displayed(wf.domain, report)}

\* C24: every run that ends in an error shows an error message together
\* with a hint
C24_ErrorPathsShowAHint ==
    EndedInError => {"error", "info"} \subseteq Levels

\* what the workflows do: every error ending shows an error message, and
\* all but the SQL run in which the LLM optimized no query show a hint
C24_ErrorPathsShowAHintButOne ==
    EndedInError
    => /\ "error" \in Levels
       /\ report # "no_queries_optimized_by_ai" => "info" \in Levels
       /\ report = "no_queries_optimized_by_ai" => wf.domain = "sql"

\* an SQL run in which every call of the LLM client failed
C24_Witness ==
    /\ wf.domain = "sql" /\ wf.pc = "idle" /\ wf.failed = "optimize"
    /\ report = "no_queries_optimized_by_ai"
    /\ issued.llm = wf.n /\ wf.n = MaxWfQueries
    /\ displayed(wf.domain, report) = <<Message("error", FALSE)>>

\* C25: outside the debug mode no message of an error path holds the text
\* of the exception
C25_NoExceptionTextOutsideDebug ==
    (EndedInError /\ ~DEBUG)
    => \A k \in DOMAIN displayed(wf.domain, report) :
          ~displayed(wf.domain, report)[k].exception

\* what the workflows do: the endings on an exception caught all show its
\* text in an error message, the endings not on an exception do not
C25_ExceptionTextIsShown ==
    EndedInError
    => ((\E k \in DOMAIN displayed(wf.domain, report) :
            /\ displayed(wf.domain, report)[k].exception
            /\ displayed(wf.domain, report)[k].level = "error")
        <=> report \in {"initialization_error", "generation_error",
                        "analysis_error", "critical_error"})

\* a storage run whose LLM call raised: "Details:" and the exception text
C25_Witness ==
    /\ wf.domain = "storage" /\ wf.pc = "idle" /\ wf.failed = "analyze"
    /\ report = "analysis_error"
    /\ ~DEBUG
    /\ displayed(wf.domain, report)[2] = Message("error", TRUE)

----------------------------------------------------------------------------
(* Which provider calls overlap, under OverlapSpec *)

\* the script thread is inside a call of the LLM client
LlmInFlight == pc # "idle"

\* a dry run of this run has started
DryStarted == InFlight # {} \/ issued.dry > 0

\* C23: in the SQL workflow the LLM calls are made one after the other, each
\* after the one before it has returned; no dry run starts before the LLM
\* call for the last query has returned; so the only calls that are ever
\* in flight together are the dry runs of the fan-out
C23_OnlyDryRunsOverlap ==
    /\ LlmInFlight
       => /\ ~DryStarted
          /\ wf.pc = "optimize"
          /\ wf.idx = issued.llm + 1
    /\ DryStarted
       => /\ ~LlmInFlight
          /\ wf.pc \in {"fanout", "idle"}
          /\ issued.llm = wf.n
    /\ Cardinality(InFlight) <= max_workers

\* two dry-run work units in flight together after both LLM calls
C23_Witness ==
    /\ wf.domain = "sql" /\ wf.pc = "fanout"
    /\ issued.llm = 2
    /\ Cardinality(InFlight) = 2
    /\ ~LlmInFlight

\* an LLM call in flight after an earlier one has returned
C23_WitnessLlm ==
    /\ LlmInFlight /\ issued.llm = 1 /\ wf.idx = 2 /\ InFlight = {}

----------------------------------------------------------------------------
(* The generators, under GenSpec *)

Returned == gen.pc = "returned"

PairwiseDistinct(sq) ==
    \A j, k \in 1..Len(sq) : j # k => sq[j] # sq[k]

\* C26: called with a count its slider lets through, each generator returns
\* a list of exactly count records; every bucket appended has a size above
\* zero, a last access before the time of the call and one of the four
\* storage classes; the queries returned for a count of 3 to 10 are count
\* strings no two of which are equal
C26_GeneratorsReturnCountRecords ==
    /\ Returned => gen.n = gen.count /\ gen.count \in Counts(gen.kind)
    /\ (gen.kind = "buckets" /\ gen.n > 0)
       => /\ gen.last.size_gb > 0
          /\ gen.last.last_accessed < now
          /\ gen.last.storage_class \in STORAGE_CLASSES
    /\ (gen.kind = "queries" /\ Returned)
       => /\ Len(gen.out) = gen.count
          /\ gen.count \in min_queries..max_queries
          /\ PairwiseDistinct(gen.out)

\* twenty buckets returned, the last of them of 1.00 GB, accessed a day ago
C26_Witness ==
    /\ Returned /\ gen.kind = "buckets"
    /\ gen.count = max_count /\ gen.n = max_count
    /\ gen.last.size_gb = 100
    /\ gen.last.last_accessed = now - 86400

\* three queries returned, no two of them equal
C26_WitnessQueries ==
    /\ Returned /\ gen.kind = "queries"
    /\ gen.count = min_queries /\ Len(gen.out) = min_queries

====
